---- MODULE Spec2Model ----
(***************************************************************************)
(* Verification model of the dpdk-fifo layer-2 endpoints.                  *)
(*                                                                         *)
(* Part I models srp::SRPEndpoint (src/include/urp.hpp, namespace srp):    *)
(* two endpoints "A" and "B", each with its producer, consumer, packet     *)
(* buffer pool, NIC TX/RX queues and the engine loop progress() = tx();    *)
(* rx().  Packet buffers have identity and contents, so a buffer that the  *)
(* NIC has released and that the window still points to is transmitted     *)
(* with whatever it holds at that moment.                                  *)
(***************************************************************************)
EXTENDS Integers, Sequences, FiniteSets, TLC

(***************************************************************************)
(* Bounds of the model (scaled-down sizes).                                *)
(***************************************************************************)
WinBits == 1        \* log2 of the capacity of Ring<rte_mbuf *, BURST_SIZE>
ExtraSend == 1      \* payloads producer A offers beyond one full window
DuplexSend == 1     \* payloads each producer offers when both sides send
DuplexBuf == 1      \* packet buffers of one mempool when both sides send
EchoSend == 2       \* payloads producer A offers when B echoes them
EchoBuf == 2        \* packet buffers of one mempool when B echoes
NBuf == 3           \* packet buffers of one mempool
RingBits == 1       \* log2 of cfg.ring_size
NicTxDesc == 1      \* free TX descriptors of an idle NIC
NicRxDesc == 1      \* RX descriptors of the NIC
DupRoom == 1        \* surplus entries the mempool's ring can take
SeqBits == 8        \* width of the sequence counters (uint32_t in the code)
MaxForeign == 1     \* frames of other stations that reach one NIC

(***************************************************************************)
(* Program constants.                                                      *)
(***************************************************************************)
OPCODE_ACK == 17
OPCODE_DATA == 16
ETH_TYPE == 34997
MAX_PAYLOAD == 1024
ETHER_HDR_LEN == 14
SRP_HDR_LEN == 1036

BURST_SIZE == 2 ^ WinBits
MaxSend == BURST_SIZE + ExtraSend
SeqMod == 2 ^ SeqBits
RingCap == (2 ^ RingBits) - 1
PoolRoom == NBuf + DupRoom
FRAME_LEN == ETHER_HDR_LEN + SRP_HDR_LEN
MaxLossRun == BURST_SIZE - 1

EP == {"A", "B"}
Peer(e) == IF e = "A" THEN "B" ELSE "A"
Bufs == 1 .. NBuf
NoBuf == 0
BCAST == "ff"

Min(a, b) == IF a < b THEN a ELSE b

VARIABLES srp, urp, sig, call, tmr, peer, ring, win, pair

vars == <<srp, urp, sig, call, tmr, peer, ring, win, pair>>

(***************************************************************************)
(* Payload records.  The k-th record producer e offers.                    *)
(***************************************************************************)
Pay(e, k) == [size |-> 8, data |-> <<e, k>>]

(***************************************************************************)
(* Ring<T, Capacity> (src/include/ring.hpp).  The window is kept as its    *)
(* head counter and the live entries buf_[head_ & mask_ .. tail_); an      *)
(* entry is the buffer pointer m together with the sequence number the     *)
(* frame was built with (seq, a history value the code does not store).    *)
(***************************************************************************)
EmptyRing == [head |-> 0, items |-> <<>>]
size(w) == Len(w.items)
tail(w) == w.head + Len(w.items)
empty(w) == w.head = tail(w)
full(w) == size(w) = BURST_SIZE
push(w, item) == IF full(w) THEN w ELSE [w EXCEPT !.items = Append(@, item)]
pop(w) == IF empty(w) THEN w ELSE [head |-> w.head + 1, items |-> Tail(w.items)]
longest_span(w) ==
  SubSeq(w.items, 1, Min(tail(w) - w.head, BURST_SIZE - (w.head % BURST_SIZE)))
span_from(w, start) ==
  LET off == start - w.head
      n == Min(tail(w) - start, BURST_SIZE - (start % BURST_SIZE))
  IN SubSeq(w.items, off + 1, off + n)
Mbufs(span) == [i \in 1 .. Len(span) |-> span[i].m]

(***************************************************************************)
(* Mempool: the stack of free buffer pointers (the per-lcore cache of      *)
(* rte_mempool is last-in first-out, and the driver's allocations and      *)
(* releases run inside rte_eth_rx_burst / rte_eth_tx_burst on the engine   *)
(* lcore).  rte_pktmbuf_free puts the pointer back whether or not it is    *)
(* already there; a put beyond the room of the pool is dropped.            *)
(***************************************************************************)
PoolCount(st) == Len(st.pool)
PoolTop(st) == IF st.pool = <<>> THEN NoBuf ELSE Head(st.pool)
rte_pktmbuf_alloc(st) == [st EXCEPT !.pool = Tail(@)]
rte_pktmbuf_free(st, b) ==
  IF PoolCount(st) < PoolRoom THEN [st EXCEPT !.pool = <<b>> \o @] ELSE st

(***************************************************************************)
(* NIC TX: rte_eth_tx_burst takes as many buffers as it has descriptors.   *)
(***************************************************************************)
rte_eth_tx_burst(st, ms) ==
  LET n == Min(Len(ms), NicTxDesc - Len(st.nic_tx))
  IN [st EXCEPT !.nic_tx = @ \o SubSeq(ms, 1, n)]
TxAccepted(st, ms) == Min(Len(ms), NicTxDesc - Len(st.nic_tx))

(***************************************************************************)
(* Frames.                                                                 *)
(***************************************************************************)
BlankFrame ==
  [dst |-> "00", src |-> "00", ether_type |-> 0, seq |-> 0, version |-> 0,
   opcode |-> 0, payload_len |-> 0, payload |-> <<>>, pkt_len |-> 0]

build_data_frame(src_mac, dst_mac, payload, seq) ==
  [dst |-> dst_mac, src |-> src_mac, ether_type |-> ETH_TYPE, seq |-> seq,
   version |-> 1, opcode |-> OPCODE_DATA, payload_len |-> payload.size,
   payload |-> payload.data, pkt_len |-> FRAME_LEN]

build_ack_frame(src_mac, dst_mac, seq) ==
  [dst |-> dst_mac, src |-> src_mac, ether_type |-> ETH_TYPE, seq |-> seq,
   version |-> 1, opcode |-> OPCODE_ACK, payload_len |-> 0,
   payload |-> <<>>, pkt_len |-> FRAME_LEN]

(***************************************************************************)
(* SRPEndpoint::parse_frame.  g is what the uninitialised local srp_hdr    *)
(* holds when the function returns it unset.                               *)
(***************************************************************************)
Unset(f) == f.pkt_len < FRAME_LEN \/ f.ether_type # ETH_TYPE
parse_frame(f, g) ==
  IF f.pkt_len < FRAME_LEN THEN [panic |-> FALSE, hdr |-> g]
  ELSE IF f.ether_type # ETH_TYPE THEN [panic |-> FALSE, hdr |-> g]
  ELSE IF f.version # 1 THEN [panic |-> TRUE, hdr |-> g]
  ELSE IF f.pkt_len < FRAME_LEN \/ f.payload_len > MAX_PAYLOAD
       THEN [panic |-> TRUE, hdr |-> g]
  ELSE [panic |-> FALSE,
        hdr |-> [seq |-> f.seq, opcode |-> f.opcode,
                 payload_len |-> f.payload_len, payload |-> f.payload]]

(***************************************************************************)
(* What a buffer holds is observable only through a pointer to it: the     *)
(* window, the NIC TX queue or the NIC RX queue.  Every allocation         *)
(* rewrites the frame, so the contents of a buffer nothing points to are   *)
(* recorded as blank.                                                      *)
(***************************************************************************)
Referenced(st) ==
  {st.outstanding_tx.items[i].m : i \in 1 .. Len(st.outstanding_tx.items)}
    \cup {st.nic_tx[i] : i \in 1 .. Len(st.nic_tx)}
    \cup {st.nic_rx[i] : i \in 1 .. Len(st.nic_rx)}
Norm(st) ==
  [st EXCEPT !.mem = [b \in Bufs |-> IF b \in Referenced(st) THEN @[b] ELSE BlankFrame]]

(***************************************************************************)
(* State after SRPEndpoint::SRPEndpoint + start(), with nbuf buffers in    *)
(* the mempool; quota is the number of payloads the producer will offer.   *)
(***************************************************************************)
InitEndpointN(e, quota, nbuf) ==
  [pc |-> "tx",
   quota |-> quota,
   outstanding_tx |-> EmptyRing,
   tx_seq |-> 0,
   rx_seq |-> 0,
   need_ack |-> FALSE,
   learned_peer |-> BCAST,
   have_learned_peer |-> FALSE,
   outbound_ring |-> <<>>,
   inbound_ring |-> <<>>,
   pool |-> [b \in 1 .. nbuf |-> b],
   mem |-> [b \in Bufs |-> BlankFrame],
   nic_tx |-> <<>>,
   nic_rx |-> <<>>,
   produced |-> 0,
   delivered |-> <<>>,
   acked_up_to |-> 0,
   ack_seen |-> <<>>,
   loss_run |-> 0,
   foreign |-> 0]

InitEndpoint(e, quota) == InitEndpointN(e, quota, NBuf)

(***************************************************************************)
(* Producer and consumer threads (rte_ring_sp_enqueue / sc_dequeue).       *)
(***************************************************************************)
Produce(e) ==
  /\ srp[e].produced < srp[e].quota
  /\ Len(srp[e].outbound_ring) < RingCap
  /\ srp' = [srp EXCEPT ![e].outbound_ring = Append(@, Pay(e, srp[e].produced + 1)),
                        ![e].produced = @ + 1]
  /\ UNCHANGED <<urp, sig, call, tmr, peer, ring, win, pair>>

Consume(e) ==
  /\ srp[e].inbound_ring # <<>>
  /\ srp' = [srp EXCEPT ![e].inbound_ring = Tail(@)]
  /\ UNCHANGED <<urp, sig, call, tmr, peer, ring, win, pair>>

(* An echo worker: every payload dequeued from the inbound ring is         *)
(* enqueued to the outbound ring.                                          *)
Echo(e) ==
  /\ srp[e].inbound_ring # <<>>
  /\ Len(srp[e].outbound_ring) < RingCap
  /\ srp' = [srp EXCEPT ![e].inbound_ring = Tail(@),
                        ![e].outbound_ring = Append(@, Head(srp[e].inbound_ring))]
  /\ UNCHANGED <<urp, sig, call, tmr, peer, ring, win, pair>>

(***************************************************************************)
(* SRPEndpoint::tx_retransmit.  fire: the timeout has elapsed.             *)
(***************************************************************************)
tx_retransmit(st, fire) ==
  IF empty(st.outstanding_tx) THEN st
  ELSE IF fire THEN rte_eth_tx_burst(st, Mbufs(longest_span(st.outstanding_tx)))
  ELSE st

(***************************************************************************)
(* SRPEndpoint::tx.  b: the buffer rte_pktmbuf_alloc hands out (NoBuf      *)
(* when the pool is exhausted, and build_data_frame panics).  fire: the    *)
(* retransmit timeout has elapsed.                                         *)
(***************************************************************************)
tx_dequeue(e, st) ==
  LET b == PoolTop(st)
      payload == Head(st.outbound_ring)
      seq == st.tx_seq
      dst == IF st.have_learned_peer THEN st.learned_peer ELSE BCAST
      s1 == [st EXCEPT !.outbound_ring = Tail(@),
                       !.tx_seq = (@ + 1) % SeqMod]
  IN IF b = NoBuf THEN [s1 EXCEPT !.pc = "dead"]
     ELSE LET s2 == rte_pktmbuf_alloc(s1)
          IN [s2 EXCEPT !.mem[b] = build_data_frame(e, dst, payload, seq),
                        !.outstanding_tx = push(@, [m |-> b, seq |-> seq])]

tx_submit(st, tx_start) ==
  LET span == span_from(st.outstanding_tx, tx_start)
  IN IF Len(span) > 0
     THEN LET s1 == rte_eth_tx_burst(st, Mbufs(span))
              span2 == span_from(s1.outstanding_tx, tx_start + Len(span))
          IN IF Len(span2) > 0 THEN rte_eth_tx_burst(s1, Mbufs(span2)) ELSE s1
     ELSE st

tx(e, st, fire) ==
  LET s1 == tx_retransmit(st, fire)
      tx_start == tail(s1.outstanding_tx)
      s2 == IF s1.outbound_ring # <<>> THEN tx_dequeue(e, s1) ELSE s1
  IN IF s2.pc = "dead" THEN s2
     ELSE [tx_submit(s2, tx_start) EXCEPT !.pc = "rx", !.ack_seen = <<>>]

TxWith(e, fire) ==
  /\ srp[e].pc = "tx"
  /\ fire => ~empty(srp[e].outstanding_tx)
  /\ srp' = [srp EXCEPT ![e] = Norm(tx(e, srp[e], fire))]
  /\ UNCHANGED <<urp, sig, call, tmr, peer, ring, win, pair>>

Tx(e) == \E fire \in BOOLEAN : TxWith(e, fire)

(***************************************************************************)
(* SRPEndpoint::rx_ack.  acked_up_to and ack_seen are history values: the  *)
(* highest ACK sequence processed so far and the sequences of the ACKs     *)
(* processed in the latest rx() call.                                      *)
(***************************************************************************)
SeqLT(a, b) == a # b /\ ((b - a) % SeqMod) < (SeqMod \div 2)

rx_ack(st, rcv) ==
  LET acked == (rcv.seq - st.rx_seq) % SeqMod
      s0 == [st EXCEPT !.ack_seen = Append(@, rcv.seq),
                       !.acked_up_to = IF SeqLT(@, rcv.seq) THEN rcv.seq ELSE @]
  IN IF acked = 0 THEN s0
     ELSE IF empty(s0.outstanding_tx) THEN [s0 EXCEPT !.pc = "dead"]
     ELSE rte_pktmbuf_free([s0 EXCEPT !.outstanding_tx = pop(@)],
                           Head(s0.outstanding_tx.items).m)

(***************************************************************************)
(* SRPEndpoint::rx, the DATA branch of the per-frame loop.  delivered is   *)
(* the history of payloads enqueued to the inbound ring.  payload_ok:      *)
(* rte_zmalloc returned a Payload (the engine loop below runs with         *)
(* allocations that succeed).                                              *)
(***************************************************************************)
rx_data(st, rcv, payload_ok) ==
  LET payload == [size |-> rcv.payload_len, data |-> rcv.payload]
      s1 == IF rcv.seq = st.rx_seq
            THEN IF payload_ok
                 THEN [st EXCEPT !.rx_seq = (@ + 1) % SeqMod,
                                 !.inbound_ring = Append(@, payload),
                                 !.delivered = Append(@, payload)]
                 ELSE [st EXCEPT !.rx_seq = (@ + 1) % SeqMod]
            ELSE st
  IN [s1 EXCEPT !.need_ack = TRUE]

(***************************************************************************)
(* SRPEndpoint::rx, one iteration of the per-frame loop on buffer m.       *)
(***************************************************************************)
rx_frame(st, m, g) ==
  LET f == st.mem[m]
      p == parse_frame(f, g)
      rcv == p.hdr
      s1 == [st EXCEPT !.learned_peer = f.src, !.have_learned_peer = TRUE]
      s2 == IF rcv.opcode = OPCODE_ACK THEN rx_ack(s1, rcv) ELSE rx_data(s1, rcv, TRUE)
  IN IF p.panic THEN [st EXCEPT !.pc = "dead"]
     ELSE IF s2.pc = "dead" THEN s2
     ELSE rte_pktmbuf_free(s2, m)

RECURSIVE rx_frames(_, _, _)
rx_frames(st, ms, g) ==
  IF ms = <<>> \/ st.pc = "dead" THEN st
  ELSE rx_frames(rx_frame(st, Head(ms), g), Tail(ms), g)

(***************************************************************************)
(* SRPEndpoint::rx, the ACK emitted after the burst.  ab: the buffer       *)
(* build_ack_frame gets (NoBuf: none, and no ACK is sent).                 *)
(***************************************************************************)
rx_send_ack(e, st) ==
  LET ab == PoolTop(st)
      dst == IF st.have_learned_peer THEN st.learned_peer ELSE "00"
  IN IF ~st.need_ack THEN st
     ELSE IF ab = NoBuf THEN [st EXCEPT !.need_ack = FALSE]
     ELSE LET s1 == [rte_pktmbuf_alloc(st) EXCEPT
                       !.mem[ab] = build_ack_frame(e, dst, st.rx_seq),
                       !.need_ack = FALSE]
          IN IF TxAccepted(s1, <<ab>>) = 0 THEN rte_pktmbuf_free(s1, ab)
             ELSE rte_eth_tx_burst(s1, <<ab>>)

Garbage ==
  [seq : {0, 1}, opcode : {OPCODE_ACK, OPCODE_DATA}, payload_len : {8},
   payload : {<<"junk", 0>>}]
NoGarbage == [seq |-> 0, opcode |-> 0, payload_len |-> 0, payload |-> <<>>]

RxBurst(st) == SubSeq(st.nic_rx, 1, Min(Len(st.nic_rx), BURST_SIZE))
RxFrames(st) == [i \in 1 .. Len(RxBurst(st)) |-> st.mem[RxBurst(st)[i]]]

rx_begin(st) ==
  [st EXCEPT !.nic_rx = SubSeq(@, Len(RxBurst(st)) + 1, Len(@))]

(***************************************************************************)
(* SRPEndpoint::rx as one step of the engine thread.  The step waits       *)
(* until the inbound ring has room for what the burst delivers (the code   *)
(* spins on rte_ring_sp_enqueue until the consumer has made room).         *)
(***************************************************************************)
Rx(e) ==
  /\ srp[e].pc = "rx"
  /\ \E g \in (IF \E i \in 1 .. Len(RxFrames(srp[e])) : Unset(RxFrames(srp[e])[i])
               THEN Garbage ELSE {NoGarbage}) :
       LET s1 == rx_frames(rx_begin(srp[e]), RxBurst(srp[e]), g)
       IN /\ Len(s1.inbound_ring) <= RingCap
          /\ srp' = [srp EXCEPT ![e] =
                       IF s1.pc = "dead" THEN s1
                       ELSE Norm([rx_send_ack(e, s1) EXCEPT !.pc = "tx"])]
  /\ UNCHANGED <<urp, sig, call, tmr, peer, ring, win, pair>>

(***************************************************************************)
(* The NIC and the link.  The NIC sends the frame the head buffer of its   *)
(* TX queue holds at that moment and releases the buffer to the mempool.   *)
(* The peer's NIC, in promiscuous mode, stores the frame in a buffer of    *)
(* its own pool and queues it for rte_eth_rx_burst.                        *)
(***************************************************************************)
NicSent(st) ==
  Norm(rte_pktmbuf_free([st EXCEPT !.nic_tx = Tail(@)], Head(st.nic_tx)))

CanReceive(st) ==
  /\ st.pc # "dead"
  /\ Len(st.nic_rx) < NicRxDesc
  /\ st.pool # <<>>

NicDeliver(e) ==
  /\ srp[e].pc # "dead"
  /\ srp[e].nic_tx # <<>>
  /\ CanReceive(srp[Peer(e)])
  /\ LET rb == PoolTop(srp[Peer(e)])
     IN srp' = [srp EXCEPT
                  ![e] = [NicSent(srp[e]) EXCEPT !.loss_run = 0],
                  ![Peer(e)] = [rte_pktmbuf_alloc(srp[Peer(e)]) EXCEPT
                                  !.mem[rb] = srp[e].mem[Head(srp[e].nic_tx)],
                                  !.nic_rx = Append(@, rb)]]
  /\ UNCHANGED <<urp, sig, call, tmr, peer, ring, win, pair>>

NicMiss(e) ==
  /\ srp[e].pc # "dead"
  /\ srp[e].nic_tx # <<>>
  /\ ~CanReceive(srp[Peer(e)])
  /\ srp' = [srp EXCEPT ![e] = NicSent(srp[e])]
  /\ UNCHANGED <<urp, sig, call, tmr, peer, ring, win, pair>>

Lose(e) ==
  /\ srp[e].pc # "dead"
  /\ srp[e].nic_tx # <<>>
  /\ srp' = [srp EXCEPT ![e] = NicSent(srp[e])]
  /\ UNCHANGED <<urp, sig, call, tmr, peer, ring, win, pair>>

(***************************************************************************)
(* A link that loses at most MaxLossRun frames in a row in one direction:  *)
(* loss_run counts the frames of e lost since the last one that arrived.   *)
(***************************************************************************)
LoseK(e) ==
  /\ srp[e].pc # "dead"
  /\ srp[e].nic_tx # <<>>
  /\ srp[e].loss_run < MaxLossRun
  /\ srp' = [srp EXCEPT ![e] = [NicSent(srp[e]) EXCEPT !.loss_run = @ + 1]]
  /\ UNCHANGED <<urp, sig, call, tmr, peer, ring, win, pair>>

(***************************************************************************)
(* Frames of other stations and damaged frames.  The port is in            *)
(* promiscuous mode, so the NIC queues whatever arrives: a runt, a frame   *)
(* of another EtherType, an SRP frame of another version and an SRP frame  *)
(* with an oversize payload_len.  foreign counts the frames injected.      *)
(***************************************************************************)
RuntFrame ==
  [BlankFrame EXCEPT !.src = "X", !.ether_type = ETH_TYPE, !.version = 1,
                     !.opcode = OPCODE_DATA, !.pkt_len = 60]
ForeignTypeFrame ==
  [BlankFrame EXCEPT !.src = "X", !.ether_type = 2054, !.pkt_len = FRAME_LEN]
BadVersionFrame ==
  [BlankFrame EXCEPT !.src = "X", !.ether_type = ETH_TYPE, !.version = 2,
                     !.opcode = OPCODE_DATA, !.pkt_len = FRAME_LEN]
OversizeFrame ==
  [BlankFrame EXCEPT !.src = "X", !.ether_type = ETH_TYPE, !.version = 1,
                     !.opcode = OPCODE_DATA, !.payload_len = MAX_PAYLOAD + 1,
                     !.pkt_len = FRAME_LEN]
MalformedFrames == {RuntFrame, ForeignTypeFrame, BadVersionFrame, OversizeFrame}

Inject(e) ==
  /\ srp[e].foreign < MaxForeign
  /\ CanReceive(srp[e])
  /\ \E f \in MalformedFrames :
       LET rb == PoolTop(srp[e])
       IN srp' = [srp EXCEPT ![e] = [rte_pktmbuf_alloc(srp[e]) EXCEPT
                                      !.mem[rb] = f,
                                      !.nic_rx = Append(@, rb),
                                      !.foreign = @ + 1]]
  /\ UNCHANGED <<urp, sig, call, tmr, peer, ring, win, pair>>


(***************************************************************************)
(* Part II: urp::URPEndpoint (src/include/urp.hpp, namespace urp) with the *)
(* threads of the full-duplex client: producer_thread_main,                *)
(* tx_thread_main, rx_thread_main and the consumer loop of main.           *)
(***************************************************************************)
UBurstSize == 2     \* cfg.tx_burst_size and cfg.rx_burst_size
URingCap == 3       \* usable slots of a ring (cfg.ring_size - 1)
UExtraSend == 2     \* records the producer offers beyond a full outbound ring
NumRecords == 2     \* records the producer preallocates and reuses
UTxDesc == 2        \* TX descriptors of the NIC
URxDesc == 2        \* RX descriptors of the NIC
MaxFullCount == 1   \* value at which ring_full_count stops counting

URP_OPCODE_DATA == 32
URP_ETH_TYPE == 34998
URP_HDR_LEN == 12
UNIT_SIZE == 64
PARSE_MIN_LEN == 100

UQuota == URingCap + UExtraSend
TxPoolSize == UTxDesc + UBurstSize
RxPoolSize == URxDesc + UBurstSize

ZeroPayload == [size |-> 0, data |-> <<>>]

(***************************************************************************)
(* State after URPEndpoint::URPEndpoint and the producer's set-up loop,    *)
(* for an endpoint configured with cfg.unit_size = unit_size.              *)
(* rec: the producer's records; the rings hold indices into rec and into   *)
(* rx_payloads_ptr_buf.  tx_bufs / rx_left: what a tx() / rx() call that   *)
(* is spinning in its submit / enqueue loop still has to hand over.        *)
(* offered and consumed are the histories of what the producer enqueued    *)
(* and of what the consumer read.                                          *)
(***************************************************************************)
UInitEndpointU(e, quota, unit_size) ==
  [dead |-> FALSE,
   unit_size |-> unit_size,
   quota |-> quota,
   i |-> 0,
   waiting |-> FALSE,
   ring_full_count |-> 0,
   rec |-> [r \in 0 .. NumRecords - 1 |-> [size |-> unit_size, data |-> <<>>]],
   outbound_ring |-> <<>>,
   inbound_ring |-> <<>>,
   tx_seq |-> 0,
   have_learned_peer |-> FALSE,
   learned_peer |-> "00",
   tx_bufs |-> <<>>,
   rx_left |-> 0,
   tx_pool |-> TxPoolSize,
   rx_pool |-> RxPoolSize,
   nic_tx |-> <<>>,
   nic_rx |-> <<>>,
   offered |-> <<>>,
   consumed |-> <<>>,
   foreign |-> 0,
   num_enqueued |-> 0]

UInitEndpoint(e, quota) == UInitEndpointU(e, quota, UNIT_SIZE)

(***************************************************************************)
(* producer_thread_main: one pass of the for (;;) body up to the first     *)
(* rte_ring_sp_enqueue, and the retries of the while loop.                 *)
(***************************************************************************)
producer_stamp(e, st) ==
  IF st.waiting THEN st
  ELSE [st EXCEPT !.rec[st.i % NumRecords].data = <<e, st.i + 1>>]

producer_enqueued(st) ==
  [st EXCEPT !.outbound_ring = Append(@, st.i % NumRecords),
             !.offered = Append(@, st.rec[st.i % NumRecords]),
             !.i = @ + 1,
             !.waiting = FALSE]

producer_gives_up(st) ==
  [st EXCEPT !.i = @ + 1, !.waiting = FALSE,
             !.offered = Append(@, st.rec[st.i % NumRecords])]
producer_ring_full(st) ==
  [st EXCEPT !.ring_full_count = Min(@ + 1, MaxFullCount),
             !.waiting = TRUE]

UEnqueueOk(e) ==
  /\ ~urp[e].dead
  /\ urp[e].i < urp[e].quota
  /\ Len(urp[e].outbound_ring) < URingCap
  /\ urp' = [urp EXCEPT ![e] = producer_enqueued(producer_stamp(e, urp[e]))]
  /\ UNCHANGED <<srp, sig, call, tmr, peer, ring, win, pair>>

UEnqueueFull(e) ==
  /\ ~urp[e].dead
  /\ urp[e].i < urp[e].quota
  /\ Len(urp[e].outbound_ring) >= URingCap
  /\ urp' = [urp EXCEPT ![e] = producer_ring_full(producer_stamp(e, urp[e]))]
  /\ UNCHANGED <<srp, sig, call, tmr, peer, ring, win, pair>>

(***************************************************************************)
(* URPEndpoint::build_data_frame.  The copy of the payload bytes is        *)
(* commented out in the code: the frame carries payload_len bytes of       *)
(* whatever the buffer held ("stale").                                     *)
(***************************************************************************)
urp_build_data_frame(src_mac, dst_mac, payload, seq) ==
  [dst |-> dst_mac, src |-> src_mac, ether_type |-> URP_ETH_TYPE, seq |-> seq,
   version |-> 1, opcode |-> URP_OPCODE_DATA, payload_len |-> payload.size,
   payload |-> "stale",
   pkt_len |-> ETHER_HDR_LEN + URP_HDR_LEN + payload.size]

(***************************************************************************)
(* URPEndpoint::parse_frame.                                               *)
(***************************************************************************)
urp_parse_frame(f) ==
  IF f.pkt_len < PARSE_MIN_LEN
  THEN [seq |-> 0, version |-> 0, opcode |-> 0, payload_len |-> 0,
        payload |-> <<>>]
  ELSE [seq |-> 0, version |-> 0, opcode |-> f.opcode, payload_len |-> 0,
        payload |-> <<>>]

(***************************************************************************)
(* URPEndpoint::tx.  urp_submit is one pass of the while (sent <           *)
(* nb_payloads) loop around rte_eth_tx_burst.                              *)
(***************************************************************************)
urp_submit(st) ==
  LET n == Min(Len(st.tx_bufs), UTxDesc - Len(st.nic_tx))
  IN [st EXCEPT !.nic_tx = @ \o SubSeq(st.tx_bufs, 1, n),
                !.tx_bufs = SubSeq(@, n + 1, Len(@))]

urp_tx(e, st) ==
  LET nb_payloads == Min(Len(st.outbound_ring), UBurstSize)
      dst == IF st.have_learned_peer THEN st.learned_peer ELSE BCAST
      first == Head(st.outbound_ring)
      s1 == [st EXCEPT !.outbound_ring = SubSeq(@, nb_payloads + 1, Len(@)),
                       !.rec[first].size = st.unit_size - URP_HDR_LEN - ETHER_HDR_LEN]
      frames == [k \in 1 .. nb_payloads |->
                   urp_build_data_frame(e, dst, s1.rec[first],
                                        (st.tx_seq + k - 1) % SeqMod)]
  IN IF nb_payloads = 0 THEN st
     ELSE IF st.unit_size < URP_HDR_LEN + ETHER_HDR_LEN
          THEN [st EXCEPT !.outbound_ring = SubSeq(@, nb_payloads + 1, Len(@)),
                          !.dead = TRUE]
     ELSE IF st.tx_pool < nb_payloads THEN [s1 EXCEPT !.dead = TRUE]
     ELSE urp_submit([s1 EXCEPT !.tx_seq = (@ + nb_payloads) % SeqMod,
                                !.tx_pool = @ - nb_payloads,
                                !.tx_bufs = frames])

UTx(e) ==
  /\ ~urp[e].dead
  /\ urp[e].tx_bufs = <<>>
  /\ urp[e].outbound_ring # <<>>
  /\ urp' = [urp EXCEPT ![e] = urp_tx(e, urp[e])]
  /\ UNCHANGED <<srp, sig, call, tmr, peer, ring, win, pair>>

UTxRetry(e) ==
  /\ ~urp[e].dead
  /\ urp[e].tx_bufs # <<>>
  /\ Len(urp[e].nic_tx) < UTxDesc
  /\ urp' = [urp EXCEPT ![e] = urp_submit(urp[e])]
  /\ UNCHANGED <<srp, sig, call, tmr, peer, ring, win, pair>>

(***************************************************************************)
(* URPEndpoint::rx.  urp_rx_enqueue is one pass of the while loop around   *)
(* rte_ring_sp_enqueue_burst, which always starts at                       *)
(* rx_payloads_ptr_buf.data().                                             *)
(***************************************************************************)
rx_payloads(k) == ZeroPayload

urp_rx_enqueue(st) ==
  LET n == Min(st.rx_left, URingCap - Len(st.inbound_ring))
  IN [st EXCEPT !.inbound_ring = @ \o [k \in 1 .. n |-> k - 1],
                !.rx_left = @ - n,
                !.num_enqueued = IF st.rx_left = n THEN 0 ELSE @ + n]

urp_rx_frame_unlatch(st, f) ==
  [st EXCEPT !.learned_peer = f.src,
             !.have_learned_peer = ~st.have_learned_peer,
             !.rx_pool = @ + 1]
urp_rx_frame(st, f) ==
  LET rcv == urp_parse_frame(f)
  IN IF rcv.opcode = URP_OPCODE_DATA \/ TRUE
     THEN [st EXCEPT !.learned_peer = IF st.have_learned_peer THEN @ ELSE f.src,
                     !.have_learned_peer = TRUE,
                     !.rx_pool = @ + 1]
     ELSE st

RECURSIVE urp_rx_frames(_, _)
urp_rx_frames(st, fs) ==
  IF fs = <<>> THEN st ELSE urp_rx_frames(urp_rx_frame(st, Head(fs)), Tail(fs))

urp_rx(st) ==
  LET nb_rx == Min(Len(st.nic_rx), UBurstSize)
      s1 == urp_rx_frames([st EXCEPT !.nic_rx = SubSeq(@, nb_rx + 1, Len(@))],
                          SubSeq(st.nic_rx, 1, nb_rx))
  IN IF nb_rx > 0 THEN urp_rx_enqueue([s1 EXCEPT !.rx_left = nb_rx]) ELSE s1

URx(e) ==
  /\ ~urp[e].dead
  /\ urp[e].rx_left = 0
  /\ urp[e].nic_rx # <<>>
  /\ urp' = [urp EXCEPT ![e] = urp_rx(urp[e])]
  /\ UNCHANGED <<srp, sig, call, tmr, peer, ring, win, pair>>

URxRetry(e) ==
  /\ ~urp[e].dead
  /\ urp[e].rx_left > 0
  /\ Len(urp[e].inbound_ring) < URingCap
  /\ urp' = [urp EXCEPT ![e] = urp_rx_enqueue(urp[e])]
  /\ UNCHANGED <<srp, sig, call, tmr, peer, ring, win, pair>>

(***************************************************************************)
(* The consumer loop of main: rte_ring_sc_dequeue on the inbound ring.     *)
(***************************************************************************)
UConsume(e) ==
  /\ ~urp[e].dead
  /\ urp[e].inbound_ring # <<>>
  /\ urp' = [urp EXCEPT ![e].inbound_ring = Tail(@),
                        ![e].consumed = Append(@, rx_payloads(Head(urp[e].inbound_ring)))]
  /\ UNCHANGED <<srp, sig, call, tmr, peer, ring, win, pair>>

(***************************************************************************)
(* The NIC and the link of the URP endpoints.                              *)
(***************************************************************************)
UCanReceive(st) ==
  /\ ~st.dead
  /\ Len(st.nic_rx) < URxDesc
  /\ st.rx_pool > 0

UNicSent(st) == [st EXCEPT !.nic_tx = Tail(@), !.tx_pool = @ + 1]

UNicDeliver(e) ==
  /\ ~urp[e].dead
  /\ urp[e].nic_tx # <<>>
  /\ UCanReceive(urp[Peer(e)])
  /\ urp' = [urp EXCEPT ![e] = UNicSent(urp[e]),
                        ![Peer(e)].nic_rx = Append(@, Head(urp[e].nic_tx)),
                        ![Peer(e)].rx_pool = @ - 1]
  /\ UNCHANGED <<srp, sig, call, tmr, peer, ring, win, pair>>

UNicMiss(e) ==
  /\ ~urp[e].dead
  /\ urp[e].nic_tx # <<>>
  /\ ~UCanReceive(urp[Peer(e)])
  /\ urp' = [urp EXCEPT ![e] = UNicSent(urp[e])]
  /\ UNCHANGED <<srp, sig, call, tmr, peer, ring, win, pair>>

(* A frame of a third station reaches the NIC of e (the port is in         *)
(* promiscuous mode): a frame of another EtherType or a short frame of     *)
(* another protocol.  foreign counts the frames injected.                  *)
UInject(e) ==
  /\ urp[e].foreign < MaxForeign
  /\ UCanReceive(urp[e])
  /\ \E f \in {ForeignTypeFrame, RuntFrame} :
       urp' = [urp EXCEPT ![e].nic_rx = Append(@, f),
                          ![e].rx_pool = @ - 1,
                          ![e].foreign = @ + 1]
  /\ UNCHANGED <<srp, sig, call, tmr, peer, ring, win, pair>>

(***************************************************************************)
(* Part III: sigproc::SigEndpoint (src/unnamed/part_001,                   *)
(* src/include/sigproc.hpp): one endpoint with its bootstrap               *)
(* (SigEndpoint::start), its engine loop (run_loop = rx(); tx() while      *)
(* running_), the application threads on its two rings, the stop flag and  *)
(* the frames its NIC receives from the link.                              *)
(***************************************************************************)
SigRingCap == 1     \* usable slots of a ring
SigRecords == 2     \* records the application sends
SigArrivals == 3    \* frames that reach the NIC
SigSeqs == 1        \* highest sequence number an arriving frame carries
SigBurst == 2       \* BURST_SIZE of rx()
SigTxDesc == 1      \* TX descriptors of the NIC
SigRxDesc == 2      \* RX descriptors of the NIC
SigBufs == 3        \* packet buffers of the mempool
SigChannels == 2    \* channels a record or a frame names

AllResources == {"mbuf_pool", "port", "inbound_ring", "outbound_ring"}
StartFailures ==
  {"none", "invalid_port", "mbuf_pool", "port_init", "inbound_ring",
   "outbound_ring", "lcore"}

(***************************************************************************)
(* SigEndpoint::init_dpdk.  fail names the sub-step that fails; the result *)
(* is the return value and the resources the endpoint object then holds.   *)
(***************************************************************************)
init_dpdk(fail) ==
  IF fail = "invalid_port" THEN [ok |-> FALSE, res |-> {}]
  ELSE IF fail = "mbuf_pool" THEN [ok |-> FALSE, res |-> {}]
  ELSE IF fail = "port_init" THEN [ok |-> FALSE, res |-> {"mbuf_pool"}]
  ELSE IF fail \in {"inbound_ring", "outbound_ring"}
       THEN [ok |-> FALSE, res |-> AllResources \ {fail}]
  ELSE [ok |-> TRUE, res |-> AllResources]

(***************************************************************************)
(* SigEndpoint::~SigEndpoint: what of the held resources is still          *)
(* allocated once the destructor has run (its body is empty).              *)
(***************************************************************************)
sig_destructor(res) == res

(***************************************************************************)
(* SigEndpoint::start: the pointer the caller gets ("live" or "null") and  *)
(* the resources that stay allocated.                                      *)
(***************************************************************************)
sig_start(fail) ==
  LET r == init_dpdk(fail)
  IN IF ~r.ok THEN [ep |-> "null", res |-> sig_destructor(r.res)]
     ELSE IF fail = "lcore" THEN [ep |-> "null", res |-> sig_destructor(r.res)]
     ELSE [ep |-> "live", res |-> r.res]

(***************************************************************************)
(* Frames on the wire of the signaling protocol.  len_ok: the frame is at  *)
(* least an Ethernet header plus a sig_hdr_t long and as long as its       *)
(* payload_len says; type_ok: EtherType is SIG_ETHER_TYPE; len_max_ok:     *)
(* payload_len <= SIG_MAX_PAYLOAD.  id: the payload bytes, copied from the *)
(* record the frame was built from (0 in an ACK, which has no payload).    *)
(***************************************************************************)
SigChans == 0 .. SigChannels - 1

SigFrame(src, opcode, channel_id, seq, id) ==
  [src |-> src, len_ok |-> TRUE, type_ok |-> TRUE, version |-> 1,
   len_max_ok |-> TRUE, opcode |-> opcode, channel_id |-> channel_id,
   seq |-> seq, id |-> id]

SigGoodFrames ==
  {SigFrame("P", op, c, s, 0) :
     op \in {"data", "ack"}, c \in SigChans, s \in 0 .. SigSeqs}
SigBadFrames ==
  {[SigFrame("X", "data", 0, 0, 0) EXCEPT !.len_ok = FALSE],
   [SigFrame("X", "data", 0, 0, 0) EXCEPT !.type_ok = FALSE],
   [SigFrame("X", "data", 0, 0, 0) EXCEPT !.version = 2],
   [SigFrame("X", "data", 0, 0, 0) EXCEPT !.len_max_ok = FALSE]}

(***************************************************************************)
(* SigEndpoint::parse_frame.                                               *)
(***************************************************************************)
sig_parse_frame(f) ==
  IF ~f.len_ok THEN [ok |-> FALSE]
  ELSE IF ~f.type_ok THEN [ok |-> FALSE]
  ELSE IF f.version # 1 THEN [ok |-> FALSE]
  ELSE IF ~f.len_max_ok THEN [ok |-> FALSE]
  ELSE [ok |-> TRUE, opcode |-> f.opcode, channel_id |-> f.channel_id,
        seq |-> f.seq, id |-> f.id]

(* A SigSend record of the outbound ring, a SigRecv record of the inbound. *)
SigSend(channel_id, id) == [channel_id |-> channel_id, id |-> id]
SigRecv(channel_id, seq, id) ==
  [channel_id |-> channel_id, seq |-> seq, id |-> id]

(***************************************************************************)
(* The endpoint before SigEndpoint::start has been called.  next_seq and   *)
(* expect_seq are the per-channel counters of EngineState, has_pending,    *)
(* pending_channel_id, pending_seq and send_copy its pending member.       *)
(***************************************************************************)
SigEndpointInit(quota, frames) ==
  [ep |-> "none",
   mac |-> "E",
   res |-> {},
   running |-> TRUE,
   pc |-> "idle",
   quota |-> quota,
   frames |-> frames,
   have_learned_peer |-> FALSE,
   learned_peer |-> "00",
   has_pending |-> FALSE,
   pending_channel_id |-> 0,
   pending_seq |-> 0,
   send_copy |-> SigSend(0, 0),
   next_seq |-> [c \in SigChans |-> 0],
   expect_seq |-> [c \in SigChans |-> 0],
   outbound_ring |-> <<>>,
   inbound_ring |-> <<>>,
   rx_rest |-> <<>>,
   copy |-> SigRecv(0, 0, 0),
   pool |-> SigBufs,
   nic_tx |-> <<>>,
   nic_rx |-> <<>>]

SigOff == SigEndpointInit(0, 0)

(***************************************************************************)
(* One frame of the transmit path: build_data_frame / build_ack_frame      *)
(* followed by rte_eth_tx_burst of that one buffer.  The result says       *)
(* whether the NIC took the frame; a frame it did not take is freed.       *)
(***************************************************************************)
sig_send_one(st, f) ==
  IF st.pool = 0 THEN [st |-> st, sent |-> FALSE]
  ELSE IF Len(st.nic_tx) >= SigTxDesc THEN [st |-> st, sent |-> FALSE]
  ELSE [st |-> [st EXCEPT !.pool = @ - 1, !.nic_tx = Append(@, f)],
        sent |-> TRUE]

(***************************************************************************)
(* SigEndpoint::tx.  fire: the retransmit timeout has elapsed.             *)
(***************************************************************************)
sig_tx(st, fire) ==
  IF ~st.has_pending
  THEN IF st.outbound_ring # <<>>
       THEN LET rec == Head(st.outbound_ring)
                ch == rec.channel_id
                seq == st.next_seq[ch]
                s1 == [st EXCEPT !.outbound_ring = Tail(@),
                                 !.next_seq[ch] = (@ + 1) % SeqMod]
                r == sig_send_one(s1, SigFrame(st.mac, "data", ch, seq, rec.id))
            IN IF r.sent
               THEN [r.st EXCEPT !.has_pending = TRUE,
                                 !.pending_channel_id = ch,
                                 !.pending_seq = seq,
                                 !.send_copy = rec]
               ELSE r.st
       ELSE st
  ELSE IF fire
       THEN sig_send_one(st, SigFrame(st.mac, "data", st.send_copy.channel_id,
                                      st.pending_seq, st.send_copy.id)).st
  ELSE st

(***************************************************************************)
(* SigEndpoint::rx, one iteration of the per-frame loop, in two halves:    *)
(* sig_rx_head is everything up to the enqueue of the copy, sig_rx_tail    *)
(* the enqueue (when the frame is delivered) and rte_pktmbuf_free(m).      *)
(* mem: rte_zmalloc has memory for the copy.                               *)
(***************************************************************************)
sig_delivers(st, f, mem) ==
  LET rcv == sig_parse_frame(f)
  IN /\ rcv.ok
     /\ rcv.opcode # "ack"
     /\ rcv.seq = st.expect_seq[rcv.channel_id]
     /\ mem

sig_rx_head_any_channel(st, f, mem) ==
  LET rcv == sig_parse_frame(f)
      s1 == [st EXCEPT !.learned_peer = f.src, !.have_learned_peer = TRUE]
  IN IF ~rcv.ok THEN st
     ELSE IF rcv.opcode = "ack"
          THEN IF s1.has_pending /\ rcv.seq = s1.pending_seq
               THEN [s1 EXCEPT !.has_pending = FALSE]
               ELSE s1
     ELSE IF rcv.seq = s1.expect_seq[rcv.channel_id]
          THEN LET s2 == [s1 EXCEPT !.expect_seq[rcv.channel_id] =
                                       (@ + 1) % SeqMod]
                   ack == SigFrame(s1.mac, "ack", rcv.channel_id, rcv.seq, 0)
               IN [sig_send_one(s2, ack).st EXCEPT
                     !.copy = IF mem
                              THEN SigRecv(rcv.channel_id, rcv.seq, rcv.id)
                              ELSE @]
     ELSE s1

sig_rx_head(st, f, mem) ==
  LET rcv == sig_parse_frame(f)
      s1 == [st EXCEPT !.learned_peer = f.src, !.have_learned_peer = TRUE]
  IN IF ~rcv.ok THEN st
     ELSE IF rcv.opcode = "ack"
          THEN IF /\ s1.has_pending
                  /\ rcv.channel_id = s1.pending_channel_id
                  /\ rcv.seq = s1.pending_seq
               THEN [s1 EXCEPT !.has_pending = FALSE]
               ELSE s1
     ELSE IF rcv.seq = s1.expect_seq[rcv.channel_id]
          THEN LET s2 == [s1 EXCEPT !.expect_seq[rcv.channel_id] =
                                       (@ + 1) % SeqMod]
                   ack == SigFrame(s1.mac, "ack", rcv.channel_id, rcv.seq, 0)
               IN [sig_send_one(s2, ack).st EXCEPT
                     !.copy = IF mem
                              THEN SigRecv(rcv.channel_id, rcv.seq, rcv.id)
                              ELSE @]
     ELSE s1

sig_rx_tail(st, delivered) ==
  [st EXCEPT !.inbound_ring = IF delivered THEN Append(@, st.copy) ELSE @,
             !.pool = @ + 1]

(***************************************************************************)
(* The per-frame loop of rx() over the frames fs.  When the inbound ring   *)
(* is full at the enqueue, the loop spins there (pc "spin") with the rest  *)
(* of the burst still to do.                                               *)
(***************************************************************************)
RECURSIVE sig_rx_frames(_, _, _)
sig_rx_frames(st, fs, mem) ==
  IF fs = <<>> THEN [st EXCEPT !.pc = "loop", !.rx_rest = <<>>]
  ELSE LET f == Head(fs)
           d == sig_delivers(st, f, mem)
           s1 == sig_rx_head(st, f, mem)
       IN IF d /\ Len(s1.inbound_ring) >= SigRingCap
          THEN [s1 EXCEPT !.pc = "spin", !.rx_rest = Tail(fs)]
          ELSE sig_rx_frames(sig_rx_tail(s1, d), Tail(fs), mem)

sig_rx(st, mem) ==
  LET nb_rx == Min(Len(st.nic_rx), SigBurst)
  IN sig_rx_frames([st EXCEPT !.nic_rx = SubSeq(@, nb_rx + 1, Len(@))],
                   SubSeq(st.nic_rx, 1, nb_rx), mem)

(***************************************************************************)
(* SigEndpoint::run_loop: one pass of while (running_) { rx(st); tx(st); } *)
(***************************************************************************)
run_loop(st, fire, mem) ==
  IF ~st.running THEN [st EXCEPT !.pc = "done"]
  ELSE LET s1 == sig_rx(st, mem)
       IN IF s1.pc = "spin" THEN s1 ELSE sig_tx(s1, fire)

(* The rest of a pass whose rx() was spinning on the full inbound ring. *)
run_loop_resume(st, fire, mem) ==
  LET s1 == sig_rx_frames(sig_rx_tail(st, TRUE), st.rx_rest, mem)
  IN IF s1.pc = "spin" THEN s1 ELSE sig_tx(s1, fire)

SigStart ==
  /\ sig.ep = "none"
  /\ sig.quota + sig.frames > 0
  /\ \E fail \in StartFailures :
       LET r == sig_start(fail)
       IN sig' = [sig EXCEPT !.ep = r.ep, !.res = r.res,
                             !.pc = IF r.ep = "live" THEN "loop" ELSE "idle"]
  /\ UNCHANGED <<srp, urp, call, tmr, peer, ring, win, pair>>

SigLoop ==
  /\ sig.ep = "live"
  /\ sig.pc = "loop"
  /\ \E fire, mem \in BOOLEAN :
       /\ fire => sig.has_pending
       /\ sig' = run_loop(sig, fire, mem)
  /\ UNCHANGED <<srp, urp, call, tmr, peer, ring, win, pair>>

SigSpin ==
  /\ sig.ep = "live"
  /\ sig.pc = "spin"
  /\ Len(sig.inbound_ring) < SigRingCap
  /\ \E fire, mem \in BOOLEAN :
       /\ fire => sig.has_pending
       /\ sig' = run_loop_resume(sig, fire, mem)
  /\ UNCHANGED <<srp, urp, call, tmr, peer, ring, win, pair>>

(* SigEndpoint::stop. *)
SigStop ==
  /\ sig.ep = "live"
  /\ sig.running
  /\ sig' = [sig EXCEPT !.running = FALSE]
  /\ UNCHANGED <<srp, urp, call, tmr, peer, ring, win, pair>>

(* The application: rte_ring_sp_enqueue on the outbound ring and           *)
(* rte_ring_sc_dequeue on the inbound ring.                                *)
SigProduce ==
  /\ sig.ep = "live"
  /\ sig.quota > 0
  /\ Len(sig.outbound_ring) < SigRingCap
  /\ \E c \in SigChans :
       sig' = [sig EXCEPT !.outbound_ring = Append(@, SigSend(c, sig.quota)),
                          !.quota = @ - 1]
  /\ UNCHANGED <<srp, urp, call, tmr, peer, ring, win, pair>>

SigConsume ==
  /\ sig.ep = "live"
  /\ sig.inbound_ring # <<>>
  /\ sig' = [sig EXCEPT !.inbound_ring = Tail(@)]
  /\ UNCHANGED <<srp, urp, call, tmr, peer, ring, win, pair>>

(* The NIC: a frame arrives from the link, a queued frame leaves. *)
SigArrive ==
  /\ sig.ep = "live"
  /\ sig.frames > 0
  /\ Len(sig.nic_rx) < SigRxDesc
  /\ sig.pool > 0
  /\ \E f \in SigGoodFrames \cup SigBadFrames :
       sig' = [sig EXCEPT !.nic_rx = Append(@, f), !.pool = @ - 1,
                          !.frames = @ - 1]
  /\ UNCHANGED <<srp, urp, call, tmr, peer, ring, win, pair>>

SigNicSent ==
  /\ sig.ep = "live"
  /\ sig.nic_tx # <<>>
  /\ sig' = [sig EXCEPT !.nic_tx = Tail(@), !.pool = @ + 1]
  /\ UNCHANGED <<srp, urp, call, tmr, peer, ring, win, pair>>

(***************************************************************************)
(* Part IV: single calls of the framing functions and of the ring          *)
(* constructors, on inputs drawn from bounded sets.  call records the      *)
(* latest call: its arguments and what it returned.                        *)
(***************************************************************************)
MaxCallSeq == 3     \* highest sequence number passed to a build call
MaxRingCount == 16  \* largest ring size requested

NoCall == [fn |-> "none"]

CallSizes ==
  {0, 1, UNIT_SIZE - URP_HDR_LEN - ETHER_HDR_LEN, PARSE_MIN_LEN, MAX_PAYLOAD,
   MAX_PAYLOAD + 1}
CallPayloads ==
  {[size |-> 0, data |-> <<>>]}
    \cup {[size |-> n, data |-> <<t, n>>] : n \in CallSizes \ {0}, t \in {"a", "b"}}

(* A build_data_frame call followed by parse_frame on the frame it made. *)
CallUrpFrame ==
  /\ \E p \in CallPayloads, seq \in 0 .. MaxCallSeq :
       LET frame == urp_build_data_frame("A", "B", p, seq)
       IN call' = [fn |-> "urp_frame", payload |-> p, seq |-> seq,
                   opcode |-> URP_OPCODE_DATA, frame |-> frame,
                   parsed |-> urp_parse_frame(frame)]
  /\ UNCHANGED <<srp, urp, sig, tmr, peer, ring, win, pair>>

CallSrpFrame ==
  /\ \E p \in CallPayloads, seq \in 0 .. MaxCallSeq :
       LET frame == build_data_frame("A", "B", p, seq)
           r == parse_frame(frame, NoGarbage)
       IN call' = [fn |-> "srp_frame", payload |-> p, seq |-> seq,
                   opcode |-> OPCODE_DATA, frame |-> frame,
                   parsed |-> IF r.panic THEN [panic |-> TRUE] ELSE r.hdr]
  /\ UNCHANGED <<srp, urp, sig, tmr, peer, ring, win, pair>>

(* The DATA branch of SRPEndpoint::rx on an endpoint whose rx_seq is        *)
(* rx_seq, for a parsed DATA frame rcv.                                    *)
CallRxData ==
  /\ \E p \in CallPayloads, seq \in 0 .. MaxCallSeq, rx_seq \in 0 .. MaxCallSeq,
        payload_ok \in BOOLEAN :
       LET st == [InitEndpoint("A", 0) EXCEPT !.rx_seq = rx_seq]
           rcv == [seq |-> seq, opcode |-> OPCODE_DATA,
                   payload_len |-> p.size, payload |-> p.data]
           s1 == rx_data(st, rcv, payload_ok)
       IN /\ p.size <= MAX_PAYLOAD
          /\ call' = [fn |-> "rx_data", payload |-> p, seq |-> seq,
                      rx_seq |-> rx_seq, payload_ok |-> payload_ok,
                      rx_seq_after |-> s1.rx_seq,
                      inbound_ring_after |-> s1.inbound_ring,
                      need_ack_after |-> s1.need_ack]
  /\ UNCHANGED <<srp, urp, sig, tmr, peer, ring, win, pair>>

(* One DATA frame and its ACK around the wrap of the sequence counters:   *)
(* a sender whose window holds n frames from sequence number base on, a    *)
(* receiver with rx_seq = base that handles the first of them (the DATA    *)
(* branch of SRPEndpoint::rx), and the sender's rx_ack on the ACK the      *)
(* receiver builds from its rx_seq.  rx_seq is the sender's own receive    *)
(* counter.                                                                *)
WrapWindow == 2
WrapBases == {SeqMod - 2, SeqMod - 1, 0}
Seqs(w) == [i \in 1 .. Len(w.items) |-> w.items[i].seq]

CallSeqWrap ==
  /\ \E base \in WrapBases, n \in 1 .. WrapWindow, rx_seq \in 0 .. MaxCallSeq :
       LET s0 == [InitEndpoint("A", n) EXCEPT
                    !.tx_seq = base, !.acked_up_to = base, !.rx_seq = rx_seq,
                    !.outbound_ring = [k \in 1 .. n |-> Pay("A", k)]]
           s1 == tx("A", s0, FALSE)
           s2 == IF n = 1 THEN s1 ELSE tx("A", [s1 EXCEPT !.pc = "tx"], FALSE)
           first == s2.mem[Head(s2.outstanding_tx.items).m]
           r0 == [InitEndpoint("B", 0) EXCEPT !.rx_seq = base]
           r1 == rx_data(r0, parse_frame(first, NoGarbage).hdr, TRUE)
           ack == build_ack_frame("B", "A", r1.rx_seq)
           s3 == rx_ack(s2, parse_frame(ack, NoGarbage).hdr)
       IN call' = [fn |-> "seq_wrap", base |-> base, n |-> n, rx_seq |-> rx_seq,
                   tx_seq_after |-> s2.tx_seq,
                   window |-> Seqs(s2.outstanding_tx),
                   rx_seq_after |-> r1.rx_seq,
                   inbound_ring_after |-> r1.inbound_ring,
                   ack_seq |-> ack.seq,
                   window_after |-> Seqs(s3.outstanding_tx),
                   dead |-> s3.pc = "dead"]
  /\ UNCHANGED <<srp, urp, sig, tmr, peer, ring, win, pair>>

(***************************************************************************)
(* Ring construction.  BitAnd is the & of unsigned integers; POWEROF2 and  *)
(* rte_ring_create are the DPDK routine the constructors call (it rejects  *)
(* a count for which ((count - 1) & count) is not zero).                   *)
(***************************************************************************)
RECURSIVE BitAnd(_, _)
BitAnd(a, b) ==
  IF a = 0 \/ b = 0 THEN 0
  ELSE (a % 2) * (b % 2) + 2 * BitAnd(a \div 2, b \div 2)

POWEROF2(x) == BitAnd(x - 1, x) = 0
rte_ring_create(count) == IF POWEROF2(count) THEN "ring" ELSE "null"

(* srp::DpdkRteRing::DpdkRteRing(name, count, ...) *)
DpdkRteRing(count) ==
  IF BitAnd(count, count - 1) # 0 THEN "invalid_argument"
  ELSE IF rte_ring_create(count) = "null" THEN "runtime_error"
  ELSE "ring"

(* The ring creation of URPEndpoint::URPEndpoint for cfg.ring_size = count. *)
urp_ring_create(count) ==
  IF rte_ring_create(count) = "null" THEN "panic" ELSE "ring"

CallDpdkRteRing ==
  /\ \E count \in 1 .. MaxRingCount :
       call' = [fn |-> "DpdkRteRing", count |-> count,
                result |-> DpdkRteRing(count)]
  /\ UNCHANGED <<srp, urp, sig, tmr, peer, ring, win, pair>>

CallUrpRing ==
  /\ \E count \in 1 .. MaxRingCount :
       call' = [fn |-> "URPEndpoint", count |-> count,
                result |-> urp_ring_create(count)]
  /\ UNCHANGED <<srp, urp, sig, tmr, peer, ring, win, pair>>

(***************************************************************************)
(* Part V: the retransmit timer of SRPEndpoint.  One sender with its       *)
(* clock: now is what rte_get_timer_cycles returns, every window entry     *)
(* carries the time at which its frame was last handed to the NIC (sent,   *)
(* a history value), and retx counts the retransmissions made so far.      *)
(***************************************************************************)
timeout_cycles == 2   \* st.timeout_cycles, in ticks of the model's clock
TmrMaxNow == 5        \* the clock stops at this value
TmrSend == 3          \* payloads the producer has put on the outbound ring

TmrOff ==
  [now |-> 0, last_tx_cycles |-> 0, outstanding_tx |-> EmptyRing,
   tx_seq |-> 0, to_send |-> 0, retx |-> 0]

(* SRPEndpoint::tx_retransmit *)
tmr_tx_retransmit(st) ==
  IF empty(st.outstanding_tx) THEN st
  ELSE IF st.now - st.last_tx_cycles >= timeout_cycles
       THEN LET n == Len(longest_span(st.outstanding_tx))
            IN [st EXCEPT !.outstanding_tx.items =
                            [i \in 1 .. Len(@) |->
                               IF i <= n THEN [@[i] EXCEPT !.sent = st.now]
                               ELSE @[i]],
                          !.last_tx_cycles = st.now,
                          !.retx = @ + 1]
       ELSE st

(* SRPEndpoint::tx *)
tmr_tx(st) ==
  LET s1 == tmr_tx_retransmit(st)
  IN IF s1.to_send > 0
     THEN [s1 EXCEPT !.to_send = @ - 1,
                     !.tx_seq = @ + 1,
                     !.outstanding_tx = push(@, [seq |-> s1.tx_seq, sent |-> s1.now])]
     ELSE s1

TmrTx ==
  /\ tmr.to_send + size(tmr.outstanding_tx) > 0
  /\ tmr' = tmr_tx(tmr)
  /\ UNCHANGED <<srp, urp, sig, call, peer, ring, win, pair>>

(* rte_get_timer_cycles advances. *)
TmrTick ==
  /\ tmr.to_send + size(tmr.outstanding_tx) > 0
  /\ tmr.now < TmrMaxNow
  /\ tmr' = [tmr EXCEPT !.now = @ + 1]
  /\ UNCHANGED <<srp, urp, sig, call, peer, ring, win, pair>>

(* SRPEndpoint::rx_ack retires the oldest entry of the window. *)
TmrAck ==
  /\ ~empty(tmr.outstanding_tx)
  /\ tmr' = [tmr EXCEPT !.outstanding_tx = pop(@)]
  /\ UNCHANGED <<srp, urp, sig, call, peer, ring, win, pair>>

(***************************************************************************)
(* Part VI: the peer latch of URPEndpoint, shared by the TX thread and the *)
(* RX thread (two lcores).  learned_peer_ and have_learned_peer_ are plain *)
(* members: the RX thread's stores and the TX thread's loads race.  A MAC  *)
(* is a pair of halves, the 4 + 2 bytes a 6-byte copy moves; the stores of *)
(* the RX thread become visible to the TX thread one at a time, in any     *)
(* order.                                                                  *)
(***************************************************************************)
PeerFrames == 2       \* frames the RX thread receives
PeerBursts == 2       \* bursts the TX thread builds

Mac(s) == <<s, s>>
PeerSrcs == {"B", "X"}

PeerOff ==
  [learned_peer |-> Mac("00"),
   have_learned_peer |-> FALSE,
   rx_stores |-> {},
   rx_left |-> 0,
   tx_left |-> 0,
   tx_pc |-> "idle",
   tx_flag |-> FALSE,
   built |-> <<>>]

(* URPEndpoint::rx, the latch of one received frame with source s.  The    *)
(* thread reads its own stores, so the test sees a flag it has stored.     *)
PeerRx ==
  /\ peer.rx_left > 0
  /\ \E s \in PeerSrcs :
       peer' = [peer EXCEPT
                  !.rx_left = @ - 1,
                  !.rx_stores =
                    IF peer.have_learned_peer
                       \/ \E w \in peer.rx_stores : w.loc = "have_learned_peer"
                    THEN @
                    ELSE @ \cup {[loc |-> "learned_peer_hi", val |-> s],
                                 [loc |-> "learned_peer_lo", val |-> s],
                                 [loc |-> "have_learned_peer", val |-> s]}]
  /\ UNCHANGED <<srp, urp, sig, call, tmr, ring, win, pair>>

(* One store of the RX thread becomes visible. *)
PeerStore ==
  /\ \E w \in peer.rx_stores :
       peer' = [peer EXCEPT
                  !.rx_stores = @ \ {w},
                  !.learned_peer =
                    IF w.loc = "learned_peer_hi" THEN <<w.val, @[2]>>
                    ELSE IF w.loc = "learned_peer_lo" THEN <<@[1], w.val>>
                    ELSE @,
                  !.have_learned_peer = @ \/ w.loc = "have_learned_peer"]
  /\ UNCHANGED <<srp, urp, sig, call, tmr, ring, win, pair>>

(* URPEndpoint::tx, the choice of dst after a burst was dequeued. *)
PeerTxFlag ==
  /\ peer.tx_pc = "idle"
  /\ peer.tx_left > 0
  /\ peer' = [peer EXCEPT !.tx_pc = "build",
                          !.tx_left = @ - 1,
                          !.tx_flag = peer.have_learned_peer]
  /\ UNCHANGED <<srp, urp, sig, call, tmr, ring, win, pair>>

(* URPEndpoint::tx, build_data_frame copies the MAC dst points to. *)
PeerTxBuild ==
  /\ peer.tx_pc = "build"
  /\ peer' = [peer EXCEPT
                 !.tx_pc = "idle",
                 !.built = Append(@, [flag |-> peer.tx_flag,
                                      dst |-> IF peer.tx_flag THEN peer.learned_peer
                                              ELSE Mac(BCAST)])]
  /\ UNCHANGED <<srp, urp, sig, call, tmr, ring, win, pair>>

(***************************************************************************)
(* Part VII: Ring<T, Capacity> (src/include/ring.hpp) as the code stores   *)
(* it: the array buf_ and the counters head_ and tail_, which are size_t   *)
(* and wrap at SizeMod.  Capacity is BURST_SIZE, the Ring the SRP window   *)
(* is made of; T is a pointer, so the move in pop leaves buf_ as it was.   *)
(* ring holds the object, the latest call on it (op, its argument or       *)
(* returned item, its return value ret) and fifo, the items of the         *)
(* successful pushes that no successful pop has returned yet, in order.    *)
(***************************************************************************)
CntExtraBits == 1   \* bits of the size_t counters beyond log2(Capacity)
RingItems == 2      \* distinct items pushed

SizeMod == 2 ^ (WinBits + CntExtraBits)
mask_ == BURST_SIZE - 1

Ring_new ==
  [buf_ |-> [i \in 0 .. BURST_SIZE - 1 |-> NoBuf], head_ |-> 0, tail_ |-> 0]
Ring_size(r) == (r.tail_ - r.head_) % SizeMod
Ring_empty(r) == r.head_ = r.tail_
Ring_full(r) == Ring_size(r) = BURST_SIZE

Ring_push_unchecked(r, item) ==
  [ret |-> TRUE,
   ring |-> [r EXCEPT !.buf_[BitAnd(r.tail_, mask_)] = item,
                      !.tail_ = (@ + 1) % SizeMod]]
Ring_push(r, item) ==
  IF Ring_full(r) THEN [ret |-> FALSE, ring |-> r]
  ELSE [ret |-> TRUE,
        ring |-> [r EXCEPT !.buf_[BitAnd(r.tail_, mask_)] = item,
                           !.tail_ = (@ + 1) % SizeMod]]

Ring_pop(r) ==
  IF Ring_empty(r) THEN [ret |-> FALSE, item |-> NoBuf, ring |-> r]
  ELSE [ret |-> TRUE, item |-> r.buf_[BitAnd(r.head_, mask_)],
        ring |-> [r EXCEPT !.head_ = (@ + 1) % SizeMod]]

RingOff == [q |-> Ring_new, op |-> "none", item |-> NoBuf, ret |-> FALSE,
            fifo |-> <<>>]

RingPush ==
  /\ \E item \in 1 .. RingItems :
       LET c == Ring_push(ring.q, item)
       IN ring' = [q |-> c.ring, op |-> "push", item |-> item, ret |-> c.ret,
                   fifo |-> IF c.ret THEN Append(ring.fifo, item) ELSE ring.fifo]
  /\ UNCHANGED <<srp, urp, sig, call, tmr, peer, win, pair>>

RingPop ==
  /\ LET c == Ring_pop(ring.q)
     IN ring' = [q |-> c.ring, op |-> "pop", item |-> c.item, ret |-> c.ret,
                 fifo |-> IF c.ret /\ ring.fifo # <<>> THEN Tail(ring.fifo)
                          ELSE ring.fifo]
  /\ UNCHANGED <<srp, urp, sig, call, tmr, peer, win, pair>>

(***************************************************************************)
(* Part VIII: the outstanding-TX window of SRPEndpoint with tx() and rx()  *)
(* run by two threads, the TX engine and the RX engine of the              *)
(* specification's scheduling model.  The window is the Ring of Part VII,  *)
(* with no lock or atomic around it; every step below is one call on the   *)
(* shared ring or one NIC submission, in program order.  pool is the set   *)
(* of free packet buffers, sent the buffers submitted at least once, span  *)
(* the (start, len) pair longest_span returned to tx_retransmit, nic the   *)
(* buffers of the latest rte_eth_tx_burst.                                 *)
(***************************************************************************)
WinBufs == 3        \* packet buffers of the mempool
WinSend == 3        \* payloads on the outbound ring
WinRetx == 3        \* retransmit timeouts that fire

Ring_longest_span(r) ==
  [start |-> BitAnd(r.head_, mask_),
   len |-> Min(Ring_size(r), BURST_SIZE - BitAnd(r.head_, mask_))]

WinOff ==
  [q |-> Ring_new, pool |-> {}, sent |-> {}, tx_pc |-> "off",
   span |-> [start |-> 0, len |-> 0], nic |-> <<>>, to_send |-> 0, retx |-> 0]

(* SRPEndpoint::tx_retransmit up to the call of rte_eth_tx_burst: the      *)
(* window is not empty, the timeout has elapsed, longest_span is taken.    *)
WinTxSpan ==
  /\ win.tx_pc = "tx"
  /\ win.retx > 0
  /\ ~Ring_empty(win.q)
  /\ win' = [win EXCEPT !.tx_pc = "burst", !.retx = @ - 1,
                        !.span = Ring_longest_span(win.q)]
  /\ UNCHANGED <<srp, urp, sig, call, tmr, peer, ring, pair>>

(* rte_eth_tx_burst(port, 0, span.data(), span.size()) of tx_retransmit:   *)
(* the NIC is handed the pointers buf_ holds at that moment.               *)
WinTxBurst ==
  /\ win.tx_pc = "burst"
  /\ win' = [win EXCEPT
                !.tx_pc = "tx",
                !.nic = [k \in 1 .. win.span.len |-> win.q.buf_[win.span.start + k - 1]],
                !.sent = @ \cup {win.q.buf_[win.span.start + k - 1] :
                                   k \in 1 .. win.span.len}]
  /\ UNCHANGED <<srp, urp, sig, call, tmr, peer, ring, pair>>

(* The rest of SRPEndpoint::tx: dequeue a payload, build its frame in a    *)
(* buffer of the pool, push it on the window and submit it.                *)
WinTxPush ==
  /\ win.tx_pc = "tx"
  /\ win.to_send > 0
  /\ win.pool # {}
  /\ LET m == CHOOSE b \in win.pool : \A c \in win.pool : b <= c
         c == Ring_push(win.q, m)
     IN win' = [win EXCEPT !.q = c.ring,
                           !.pool = @ \ {m},
                           !.to_send = @ - 1,
                           !.nic = IF c.ret THEN <<m>> ELSE <<>>,
                           !.sent = IF c.ret THEN @ \cup {m} ELSE @ \ {m}]
  /\ UNCHANGED <<srp, urp, sig, call, tmr, peer, ring, pair>>

(* SRPEndpoint::rx_ack on the RX engine's thread, for an ACK of the frame  *)
(* at the head of the window: pop and rte_pktmbuf_free.                    *)
WinRxAck ==
  /\ win.tx_pc # "off"
  /\ ~Ring_empty(win.q)
  /\ win.q.buf_[BitAnd(win.q.head_, mask_)] \in win.sent
  /\ LET c == Ring_pop(win.q)
     IN win' = [win EXCEPT !.q = c.ring,
                           !.pool = @ \cup {c.item},
                           !.sent = @ \ {c.item}]
  /\ UNCHANGED <<srp, urp, sig, call, tmr, peer, ring, pair>>

(***************************************************************************)
(* Part IX: two SigEndpoints on one link.  S has records to send, R        *)
(* delivers them; each runs the engine loop of Part III (for S this is     *)
(* also the loop of fifo_sender, for R the loop of fifo_receiver).  The    *)
(* link carries the frame at the head of one NIC's TX queue to the other   *)
(* NIC's RX queue, or loses it, which it does at most LinkLoss times.      *)
(* rte_zmalloc has memory throughout this part.                            *)
(***************************************************************************)
LinkLoss == 1       \* frames the link loses
LinkRecords == 2    \* records the application of S sends

Ends == {"S", "R"}
Other(e) == IF e = "S" THEN "R" ELSE "S"

(* An endpoint that SigEndpoint::start has returned. *)
PairEndpoint(e, quota) ==
  [SigEndpointInit(quota, 0) EXCEPT !.ep = "live", !.mac = e,
                                    !.res = AllResources, !.pc = "loop"]

PairOff == [end |-> [e \in Ends |-> SigOff], lost |-> 0]

(* One pass of run_loop of endpoint e. *)
PairPass(e, fire) ==
  /\ pair.end[e].ep = "live"
  /\ pair.end[e].pc = "loop"
  /\ fire => pair.end[e].has_pending
  /\ pair' = [pair EXCEPT !.end[e] = run_loop(@, fire, TRUE)]
  /\ UNCHANGED <<srp, urp, sig, call, tmr, peer, ring, win>>

PairSpin(e) ==
  /\ pair.end[e].ep = "live"
  /\ pair.end[e].pc = "spin"
  /\ Len(pair.end[e].inbound_ring) < SigRingCap
  /\ \E fire \in BOOLEAN :
       /\ fire => pair.end[e].has_pending
       /\ pair' = [pair EXCEPT !.end[e] = run_loop_resume(@, fire, TRUE)]
  /\ UNCHANGED <<srp, urp, sig, call, tmr, peer, ring, win>>

(* The applications on the rings of e. *)
PairProduce(e) ==
  /\ pair.end[e].ep = "live"
  /\ pair.end[e].quota > 0
  /\ Len(pair.end[e].outbound_ring) < SigRingCap
  /\ \E c \in SigChans :
       pair' = [pair EXCEPT
                  !.end[e].outbound_ring =
                     Append(@, SigSend(c, pair.end[e].quota)),
                  !.end[e].quota = @ - 1]
  /\ UNCHANGED <<srp, urp, sig, call, tmr, peer, ring, win>>

PairConsume(e) ==
  /\ pair.end[e].ep = "live"
  /\ pair.end[e].inbound_ring # <<>>
  /\ pair' = [pair EXCEPT !.end[e].inbound_ring = Tail(@)]
  /\ UNCHANGED <<srp, urp, sig, call, tmr, peer, ring, win>>

(* The link: the NIC of e sends its oldest queued frame, which reaches the *)
(* RX queue of the other NIC or is lost on the way.                        *)
LinkDeliver(e) ==
  /\ pair.end[e].nic_tx # <<>>
  /\ Len(pair.end[Other(e)].nic_rx) < SigRxDesc
  /\ pair.end[Other(e)].pool > 0
  /\ pair' = [pair EXCEPT
                !.end[e].nic_tx = Tail(@),
                !.end[e].pool = @ + 1,
                !.end[Other(e)].nic_rx = Append(@, Head(pair.end[e].nic_tx)),
                !.end[Other(e)].pool = @ - 1]
  /\ UNCHANGED <<srp, urp, sig, call, tmr, peer, ring, win>>

LinkLose(e) ==
  /\ pair.end[e].nic_tx # <<>>
  /\ pair.lost < LinkLoss
  /\ pair' = [pair EXCEPT !.end[e].nic_tx = Tail(@),
                          !.end[e].pool = @ + 1,
                          !.lost = @ + 1]
  /\ UNCHANGED <<srp, urp, sig, call, tmr, peer, ring, win>>

(***************************************************************************)
(* Specifications.                                                         *)
(***************************************************************************)
SrpOff == [e \in EP |-> InitEndpoint(e, 0)]
UrpOff == [e \in EP |-> UInitEndpoint(e, 0)]

(* SRP, producer A sends MaxSend payloads over a lossy link. *)
Init ==
  /\ srp = [e \in EP |-> InitEndpoint(e, IF e = "A" THEN MaxSend ELSE 0)]
  /\ urp = UrpOff
  /\ sig = SigOff
  /\ call = NoCall
  /\ tmr = TmrOff
  /\ peer = PeerOff
  /\ ring = RingOff
  /\ win = WinOff
  /\ pair = PairOff

Next ==
  \E e \in EP :
    \/ Produce(e)
    \/ Consume(e)
    \/ Tx(e)
    \/ Rx(e)
    \/ NicDeliver(e)
    \/ NicMiss(e)
    \/ Lose(e)

Spec == Init /\ [][Next]_vars

(* SRP, both producers send (full duplex). *)
InitDuplex ==
  /\ srp = [e \in EP |-> InitEndpointN(e, DuplexSend, DuplexBuf)]
  /\ urp = UrpOff
  /\ sig = SigOff
  /\ call = NoCall
  /\ tmr = TmrOff
  /\ peer = PeerOff
  /\ ring = RingOff
  /\ win = WinOff
  /\ pair = PairOff

SpecDuplex == InitDuplex /\ [][Next]_vars

(* SRP over a link that loses at most MaxLossRun frames in a row, with the *)
(* engine loop, the NIC and the consumer scheduled fairly and the          *)
(* retransmit timer expiring again and again while the window is not       *)
(* empty.                                                                  *)
NextLossy ==
  \E e \in EP :
    \/ Produce(e)
    \/ Consume(e)
    \/ Tx(e)
    \/ Rx(e)
    \/ NicDeliver(e)
    \/ NicMiss(e)
    \/ LoseK(e)

FairLossy ==
  \A e \in EP :
    /\ WF_vars(Tx(e))
    /\ SF_vars(TxWith(e, TRUE))
    /\ WF_vars(Rx(e))
    /\ WF_vars(Consume(e))
    /\ WF_vars(NicDeliver(e) \/ NicMiss(e))

SpecLossy == Init /\ [][NextLossy]_vars /\ FairLossy

(* SRP endpoints whose producers are silent, with frames of other         *)
(* stations arriving at the NICs.                                          *)
InitWire ==
  /\ srp = SrpOff
  /\ urp = UrpOff
  /\ sig = SigOff
  /\ call = NoCall
  /\ tmr = TmrOff
  /\ peer = PeerOff
  /\ ring = RingOff
  /\ win = WinOff
  /\ pair = PairOff

NextWire ==
  \E e \in EP :
    \/ Consume(e)
    \/ Tx(e)
    \/ Rx(e)
    \/ NicDeliver(e)
    \/ NicMiss(e)
    \/ Lose(e)
    \/ Inject(e)

SpecWire == InitWire /\ [][NextWire]_vars

(* URP over a lossless link: a frame leaves the NIC only when the peer's   *)
(* NIC can take it.                                                        *)
UInit ==
  /\ srp = SrpOff
  /\ urp = [e \in EP |-> UInitEndpoint(e, IF e = "A" THEN UQuota ELSE 0)]
  /\ sig = SigOff
  /\ call = NoCall
  /\ tmr = TmrOff
  /\ peer = PeerOff
  /\ ring = RingOff
  /\ win = WinOff
  /\ pair = PairOff

UNextLossless ==
  \E e \in EP :
    \/ UEnqueueOk(e)
    \/ UEnqueueFull(e)
    \/ UTx(e)
    \/ UTxRetry(e)
    \/ URx(e)
    \/ URxRetry(e)
    \/ UConsume(e)
    \/ UNicDeliver(e)

SpecURP == UInit /\ [][UNextLossless]_vars

(* URP with a NIC that drops what the peer cannot take, and with the       *)
(* producer, the TX thread and the NIC scheduled fairly.                   *)
UNext ==
  \E e \in EP :
    \/ UEnqueueOk(e)
    \/ UEnqueueFull(e)
    \/ UTx(e)
    \/ UTxRetry(e)
    \/ URx(e)
    \/ URxRetry(e)
    \/ UConsume(e)
    \/ UNicDeliver(e)
    \/ UNicMiss(e)

UFair ==
  \A e \in EP :
    /\ WF_vars(UEnqueueOk(e))
    /\ WF_vars(UTx(e))
    /\ WF_vars(UTxRetry(e))
    /\ WF_vars(UNicDeliver(e) \/ UNicMiss(e))

SpecURPFair == UInit /\ [][UNext]_vars /\ UFair

(* URP on a link that also carries the frames of a third station. *)
SpecURPWire == UInit /\ [][UNextLossless \/ \E e \in EP : UInject(e)]_vars

(* URP endpoints configured with a unit_size drawn from UnitSizes. *)
UnitSizes ==
  {ETHER_HDR_LEN + URP_HDR_LEN - 3, ETHER_HDR_LEN + URP_HDR_LEN - 1, UNIT_SIZE,
   MAX_PAYLOAD + ETHER_HDR_LEN + URP_HDR_LEN,
   MAX_PAYLOAD + ETHER_HDR_LEN + URP_HDR_LEN + 1}

UInitCfg ==
  /\ srp = SrpOff
  /\ \E u \in UnitSizes :
       urp = [e \in EP |-> UInitEndpointU(e, IF e = "A" THEN UQuota ELSE 0, u)]
  /\ sig = SigOff
  /\ call = NoCall
  /\ tmr = TmrOff
  /\ peer = PeerOff
  /\ ring = RingOff
  /\ win = WinOff
  /\ pair = PairOff

SpecURPCfg == UInitCfg /\ [][UNextLossless]_vars

(* SRP over a link that loses nothing, with B's worker echoing every       *)
(* payload it receives, in a run where no retransmit timeout elapses.      *)
InitEcho ==
  /\ srp = [e \in EP |-> InitEndpointN(e, IF e = "A" THEN EchoSend ELSE 0, EchoBuf)]
  /\ urp = UrpOff
  /\ sig = SigOff
  /\ call = NoCall
  /\ tmr = TmrOff
  /\ peer = PeerOff
  /\ ring = RingOff
  /\ win = WinOff
  /\ pair = PairOff

NextEcho ==
  \/ Consume("A")
  \/ Echo("B")
  \/ \E e \in EP :
       \/ Produce(e)
       \/ TxWith(e, FALSE)
       \/ Rx(e)
       \/ NicDeliver(e)

SpecEcho == InitEcho /\ [][NextEcho]_vars

(* One SigEndpoint. *)
SigInit ==
  /\ srp = SrpOff
  /\ urp = UrpOff
  /\ sig = SigEndpointInit(SigRecords, SigArrivals)
  /\ call = NoCall
  /\ tmr = TmrOff
  /\ peer = PeerOff
  /\ ring = RingOff
  /\ win = WinOff
  /\ pair = PairOff

SigNext ==
  \/ SigStart
  \/ SigLoop
  \/ SigSpin
  \/ SigStop
  \/ SigProduce
  \/ SigConsume
  \/ SigArrive
  \/ SigNicSent

SpecSig == SigInit /\ [][SigNext]_vars

(* Any one of the three endpoint kinds in use: SRP endpoints with frames   *)
(* of other stations arriving, URP endpoints, or a SigEndpoint.            *)
InitAny == InitWire \/ UInit \/ SigInit

NextAny ==
  \/ urp = UrpOff /\ sig = SigOff /\ NextWire
  \/ srp = SrpOff /\ sig = SigOff /\ UNext
  \/ srp = SrpOff /\ urp = UrpOff /\ SigNext

SpecAny == InitAny /\ [][NextAny]_vars

(* The peer latch of one URP endpoint under its TX and RX threads. *)
InitPeer ==
  /\ srp = SrpOff
  /\ urp = UrpOff
  /\ sig = SigOff
  /\ call = NoCall
  /\ tmr = TmrOff
  /\ peer = [PeerOff EXCEPT !.rx_left = PeerFrames, !.tx_left = PeerBursts]
  /\ ring = RingOff
  /\ win = WinOff
  /\ pair = PairOff

SpecPeer == InitPeer /\ [][PeerRx \/ PeerStore \/ PeerTxFlag \/ PeerTxBuild]_vars

(* One Ring object under any sequence of push and pop calls. *)
InitRing ==
  /\ srp = SrpOff
  /\ urp = UrpOff
  /\ sig = SigOff
  /\ call = NoCall
  /\ tmr = TmrOff
  /\ peer = PeerOff
  /\ ring = RingOff
  /\ win = WinOff
  /\ pair = PairOff

SpecRing == InitRing /\ [][RingPush \/ RingPop]_vars

(* The SRP window under a TX engine thread and an RX engine thread. *)
InitWin ==
  /\ srp = SrpOff
  /\ urp = UrpOff
  /\ sig = SigOff
  /\ call = NoCall
  /\ tmr = TmrOff
  /\ peer = PeerOff
  /\ ring = RingOff
  /\ win = [WinOff EXCEPT !.pool = 1 .. WinBufs, !.tx_pc = "tx",
                          !.to_send = WinSend, !.retx = WinRetx]
  /\ pair = PairOff

SpecWin == InitWin /\ [][WinTxSpan \/ WinTxBurst \/ WinTxPush \/ WinRxAck]_vars

(* The retransmit timer of one SRP sender. *)
InitTmr ==
  /\ srp = SrpOff
  /\ urp = UrpOff
  /\ sig = SigOff
  /\ call = NoCall
  /\ tmr = [TmrOff EXCEPT !.to_send = TmrSend]
  /\ peer = PeerOff
  /\ ring = RingOff
  /\ win = WinOff
  /\ pair = PairOff

SpecTmr == InitTmr /\ [][TmrTx \/ TmrTick \/ TmrAck]_vars


(* Single calls of the framing functions and the ring constructors. *)
InitCalls ==
  /\ srp = SrpOff
  /\ urp = UrpOff
  /\ sig = SigOff
  /\ call = NoCall
  /\ tmr = TmrOff
  /\ peer = PeerOff
  /\ ring = RingOff
  /\ win = WinOff
  /\ pair = PairOff

NextCalls ==
  \/ CallUrpFrame
  \/ CallSrpFrame
  \/ CallRxData
  \/ CallSeqWrap
  \/ CallDpdkRteRing
  \/ CallUrpRing

SpecCalls == InitCalls /\ [][NextCalls]_vars

(* Two SigEndpoints, S sending LinkRecords records to R over a link that   *)
(* loses at most LinkLoss frames.                                          *)
InitPair ==
  /\ srp = SrpOff
  /\ urp = UrpOff
  /\ sig = SigOff
  /\ call = NoCall
  /\ tmr = TmrOff
  /\ peer = PeerOff
  /\ ring = RingOff
  /\ win = WinOff
  /\ pair = [end |-> [e \in Ends |->
                        PairEndpoint(e, IF e = "S" THEN LinkRecords ELSE 0)],
             lost |-> 0]

NextPair ==
  \E e \in Ends :
    \/ PairPass(e, FALSE)
    \/ PairPass(e, TRUE)
    \/ PairSpin(e)
    \/ PairProduce(e)
    \/ PairConsume(e)
    \/ LinkDeliver(e)
    \/ LinkLose(e)

SpecPair == InitPair /\ [][NextPair]_vars

(* The engine lcores keep running, the retransmit timeout elapses while a  *)
(* frame is pending, the applications keep producing and consuming, and    *)
(* the NICs keep sending.                                                  *)
PairFair ==
  \A e \in Ends :
    /\ WF_vars(PairPass(e, FALSE))
    /\ WF_vars(PairPass(e, TRUE))
    /\ WF_vars(PairSpin(e))
    /\ WF_vars(PairProduce(e))
    /\ WF_vars(PairConsume(e))
    /\ WF_vars(LinkDeliver(e))

SpecPairFair == SpecPair /\ PairFair

(***************************************************************************)
(* Claims.                                                                 *)
(***************************************************************************)
IsPrefix(s, t) == Len(s) <= Len(t) /\ \A i \in 1 .. Len(s) : s[i] = t[i]
Enqueued(e) == [k \in 1 .. srp[e].produced |-> Pay(e, k)]
Window(e) == srp[e].outstanding_tx.items
TxStep(e) == srp[e].pc = "tx" /\ srp'[e].pc # "tx"
RxStep(e) == srp[e].pc = "rx" /\ srp'[e].pc # "rx"

AtRest ==
  \A e \in EP :
    /\ srp[e].pc # "dead"
    /\ srp[e].produced = srp[e].quota
    /\ srp[e].outbound_ring = <<>>
    /\ empty(srp[e].outstanding_tx)
    /\ srp[e].nic_tx = <<>> /\ srp[e].nic_rx = <<>>
Quiescent ==
  \A e \in EP :
    /\ srp[e].pc # "dead"
    /\ srp[e].outbound_ring = <<>> /\ srp[e].inbound_ring = <<>>
    /\ empty(srp[e].outstanding_tx)
    /\ srp[e].nic_tx = <<>> /\ srp[e].nic_rx = <<>>
StaleAck(st, f) ==
  /\ ~Unset(f) /\ f.version = 1 /\ f.payload_len <= MAX_PAYLOAD
  /\ f.opcode = OPCODE_ACK
  /\ \/ empty(st.outstanding_tx)
     \/ ((f.seq - st.acked_up_to) % SeqMod) > size(st.outstanding_tx)
Malformed(f) ==
  \/ f.pkt_len < FRAME_LEN
  \/ f.ether_type # ETH_TYPE
  \/ f.version # 1
  \/ f.payload_len > MAX_PAYLOAD
EnqueueFails(e) ==
  /\ Len(urp[e].outbound_ring) >= URingCap
  /\ urp[e].i < urp[e].quota
  /\ urp'[e].i = urp[e].i
  /\ urp'[e].ring_full_count # urp[e].ring_full_count
\* C1: the payloads an SRP RX engine has enqueued to its inbound ring are a
\* prefix of the payloads the peer's producer enqueued to its outbound ring.
C1_DeliveryPrefix ==
  \A e \in EP : IsPrefix(srp[e].delivered, Enqueued(Peer(e)))

\* C2: on a link that loses fewer frames in a row than the window holds,
\* every payload a producer has enqueued is eventually enqueued to the
\* peer's inbound ring.  Once the producers have finished, the rings and
\* the windows are empty and the NICs are idle, nothing is left that could
\* still deliver a payload, so in such a state every enqueued payload has
\* been delivered.
C2_DeliveredAtRest ==
  AtRest => \A e \in EP : Len(srp[Peer(e)].delivered) >= srp[e].produced

\* C3: right after rx() has processed an ACK carrying sequence s, the
\* window holds no frame whose sequence number is below s (mod 2^w).
C3_AckCumulative ==
  \A e \in EP :
    srp[e].pc = "tx" =>
      \A a \in 1 .. Len(srp[e].ack_seen) : \A i \in 1 .. Len(Window(e)) :
        ~SeqLT(Window(e)[i].seq, srp[e].ack_seen[a])

\* C4: over a lossless link the payloads the URP consumer has dequeued are,
\* in order, sizes and bytes, the first payloads the peer's producer
\* enqueued.
C4_UrpFifo ==
  \A e \in EP : IsPrefix(urp[e].consumed, urp[Peer(e)].offered)

\* C5: in quiescence (rings empty, windows empty, NIC idle) every mempool
\* holds as many free buffers as right after bootstrap.
C5_BufferConservation ==
  Quiescent => \A e \in EP : PoolCount(srp[e]) = NBuf

\* C6: a tx() iteration that starts with a full window leaves the
\* outbound ring and tx_seq untouched.
C6_WindowBackoff ==
  [][\A e \in EP :
       (TxStep(e) /\ full(srp[e].outstanding_tx)) =>
         /\ srp'[e].outbound_ring = srp[e].outbound_ring
         /\ srp'[e].tx_seq = srp[e].tx_seq]_vars

\* C7: the window holds tx_seq - acked_up_to entries (mod 2^w) and entry i
\* is the frame built with sequence number acked_up_to + i.
C7_WindowSeq ==
  \A e \in EP :
    srp[e].pc # "dead" =>
      /\ Len(Window(e)) = (srp[e].tx_seq - srp[e].acked_up_to) % SeqMod
      /\ \A i \in 1 .. Len(Window(e)) :
           Window(e)[i].seq = (srp[e].acked_up_to + i - 1) % SeqMod

\* C8: an rx() call whose burst holds only ACKs that would release more
\* entries than the window holds (their sequence lies outside the window,
\* or the window is empty) changes neither the window nor the sequence
\* counters, and the endpoint keeps running.
C8_StaleAckIgnored ==
  [][\A e \in EP :
       (/\ RxStep(e)
        /\ RxFrames(srp[e]) # <<>>
        /\ \A i \in 1 .. Len(RxFrames(srp[e])) : StaleAck(srp[e], RxFrames(srp[e])[i]))
       => /\ srp'[e].pc = "tx"
          /\ srp'[e].outstanding_tx = srp[e].outstanding_tx
          /\ srp'[e].tx_seq = srp[e].tx_seq
          /\ srp'[e].rx_seq = srp[e].rx_seq]_vars

\* C9: an rx() call whose burst holds only malformed frames (too short,
\* wrong EtherType, version other than 1, oversize payload_len) frees the
\* buffers and changes nothing else: nothing is enqueued, no ACK is sent,
\* rx_seq, the window and the learned peer stay as they were, and the
\* endpoint keeps running.
C9_MalformedDropped ==
  [][\A e \in EP :
       (/\ RxStep(e)
        /\ RxFrames(srp[e]) # <<>>
        /\ \A i \in 1 .. Len(RxFrames(srp[e])) : Malformed(RxFrames(srp[e])[i]))
       => /\ srp'[e].pc = "tx"
          /\ srp'[e].nic_rx = rx_begin(srp[e]).nic_rx
          /\ srp'[e].inbound_ring = srp[e].inbound_ring
          /\ srp'[e].rx_seq = srp[e].rx_seq
          /\ srp'[e].outstanding_tx = srp[e].outstanding_tx
          /\ srp'[e].need_ack = srp[e].need_ack
          /\ srp'[e].nic_tx = srp[e].nic_tx
          /\ srp'[e].learned_peer = srp[e].learned_peer
          /\ srp'[e].have_learned_peer = srp[e].have_learned_peer]_vars

\* C10: an enqueue on a full outbound ring fails and leaves the ring as it
\* was; the producer keeps the record and retries, and with the producer,
\* the TX thread and the NIC scheduled fairly the retry eventually
\* succeeds; every record the producer has offered is in the outbound ring
\* or has been turned into a frame, and the endpoint never terminates.
C10_Backpressure ==
  /\ [](\A e \in EP :
          /\ ~urp[e].dead
          /\ Len(urp[e].offered) = urp[e].i
          /\ urp[e].i = Len(urp[e].outbound_ring) + urp[e].tx_seq)
  /\ [][\A e \in EP :
          EnqueueFails(e) =>
            /\ urp'[e].outbound_ring = urp[e].outbound_ring
            /\ urp'[e].waiting]_vars
  /\ \A e \in EP : urp[e].waiting ~> ~urp[e].waiting
C10_Witness ==
  \E e \in EP :
    /\ urp[e].ring_full_count > 0
    /\ ~urp[e].waiting
    /\ urp[e].i > URingCap
    /\ urp[e].tx_seq > 0

NoDup(s) == \A i, j \in 1 .. Len(s) : i # j => s[i] # s[j]
\* C11: every Payload record has one owner at a time; in particular no
\* record (pointer) is in the outbound ring or in the inbound ring of a URP
\* endpoint more than once.
C11_SingleOwner ==
  \A e \in EP : NoDup(urp[e].outbound_ring) /\ NoDup(urp[e].inbound_ring)

\* C12: have_learned_peer is a monotone latch: in URP, SRP and SigEndpoint,
\* once the flag is true no step makes it false, whatever frames arrive.
C12_LearnedLatch ==
  [][/\ \A e \in EP : srp[e].have_learned_peer => srp'[e].have_learned_peer
     /\ \A e \in EP : urp[e].have_learned_peer => urp'[e].have_learned_peer
     /\ sig.have_learned_peer => sig'.have_learned_peer]_vars
C12_Witness ==
  \E e \in EP : urp[e].have_learned_peer /\ Len(urp[e].consumed) >= 2

\* C13: for every payload of at most MAX_PAYLOAD bytes and every sequence
\* number, parsing the frame that build_data_frame made returns the
\* payload's length and bytes, the sequence number and the opcode the frame
\* was built with, in URP as in SRP.
C13_FrameRoundTrip ==
  (call.fn \in {"urp_frame", "srp_frame"} /\ call.payload.size <= MAX_PAYLOAD) =>
    /\ call.parsed.seq = call.seq
    /\ call.parsed.opcode = call.opcode
    /\ call.parsed.payload_len = call.payload.size
    /\ call.parsed.payload = call.payload.data

\* C14: a build call never yields a frame whose payload_len exceeds
\* MAX_PAYLOAD: for a payload of MAX_PAYLOAD + 1 bytes or more the build
\* fails and no such frame exists to be handed to the NIC.
C14_OversizeRejected ==
  call.fn \in {"urp_frame", "srp_frame"} =>
    call.frame.payload_len <= MAX_PAYLOAD

\* C15: whatever unit_size is configured, every Payload record in the
\* outbound ring, every record the TX engine has written (its size is no
\* longer the producer's unit_size) and every record the consumer has
\* dequeued has size <= MAX_PAYLOAD.
C15_PayloadSize ==
  \A e \in EP :
    /\ \A k \in 1 .. Len(urp[e].outbound_ring) :
         urp[e].rec[urp[e].outbound_ring[k]].size <= MAX_PAYLOAD
    /\ \A r \in DOMAIN urp[e].rec :
         urp[e].rec[r].size # urp[e].unit_size => urp[e].rec[r].size <= MAX_PAYLOAD
    /\ \A k \in 1 .. Len(urp[e].consumed) : urp[e].consumed[k].size <= MAX_PAYLOAD

\* C16: the producer of A sends EchoSend payloads over a link that loses
\* nothing and B echoes each one; once everything has come to rest (the
\* producer has finished, rings, windows and NIC queues are empty) the
\* window of A is empty and A has tx_seq = EchoSend and rx_seq = EchoSend.
C16_EchoEndState ==
  (Quiescent /\ srp["A"].produced = EchoSend) =>
    /\ empty(srp["A"].outstanding_tx)
    /\ srp["A"].tx_seq = EchoSend
    /\ srp["A"].rx_seq = EchoSend

\* C17: a shortage on the data path is met by retrying.  A tx() call never
\* ends the endpoint (an empty mempool included), and an rx() call that owes
\* an ACK for the DATA it has just processed either hands the ACK to the NIC
\* or still owes it afterwards (need_ack stays set when the NIC TX queue is
\* full or the mempool is empty).
AckDue(st) ==
  /\ \A i \in 1 .. Len(RxFrames(st)) : ~Unset(RxFrames(st)[i])
  /\ rx_frames(rx_begin(st), RxBurst(st), NoGarbage).pc # "dead"
  /\ rx_frames(rx_begin(st), RxBurst(st), NoGarbage).need_ack
C17_LocalRetry ==
  [][\A e \in EP :
       /\ srp[e].pc = "tx" => srp'[e].pc # "dead"
       /\ (srp[e].pc = "rx" /\ srp'[e].pc = "tx" /\ AckDue(srp[e])) =>
            \/ srp'[e].need_ack
            \/ Len(srp'[e].nic_tx) > Len(srp[e].nic_tx)]_vars

\* C18: bootstrap is all or nothing.  When SigEndpoint::start has returned
\* no endpoint, nothing that init_dpdk allocated before the failing sub-step
\* (mempool, started port, rings) is still allocated.
C18_BootstrapAtomic == sig.ep = "null" => sig.res = {}

\* C19: once stop() has cleared running_, the engine loop is never held
\* up: whatever the rings and the NIC hold, the engine thread can take its
\* next step until run_loop has returned.
C19_StopObserved ==
  (sig.ep = "live" /\ ~sig.running /\ sig.pc # "done") =>
    ENABLED (SigLoop \/ SigSpin)

\* C20: constructing a ring (DpdkRteRing, or the rings of a URPEndpoint)
\* fails for every requested size that is not a power of two and for size
\* 1, and succeeds for size 2.
IsPowerOfTwo(n) == \E k \in 0 .. n : n = 2 ^ k
C20_RingSizeValidation ==
  call.fn \in {"DpdkRteRing", "URPEndpoint"} =>
    /\ (~IsPowerOfTwo(call.count) \/ call.count = 1) => call.result # "ring"
    /\ call.count = 2 => call.result = "ring"

\* C21: unit_size is validated when the endpoint is configured.  An
\* endpoint whose unit_size is below 24 never takes a payload out of its
\* outbound ring, and an endpoint whose unit_size is at least 24 is never
\* ended by the unit_size test.
C21_UnitSizeValidated ==
  [][\A e \in EP :
       /\ urp[e].unit_size < 24 =>
            Len(urp'[e].outbound_ring) >= Len(urp[e].outbound_ring)
       /\ (urp[e].unit_size >= 24 /\ ~urp[e].dead) => ~urp'[e].dead]_vars

\* C22: a retransmission covers the whole window.  Whenever the engine is
\* about to call tx() with a non-empty window, the span that tx_retransmit
\* hands to rte_eth_tx_burst when the timer fires is the whole window, head
\* to tail, entries stored past the wrap-around point included.
C22_RetransmitWholeWindow ==
  \A e \in EP :
    (srp[e].pc = "tx" /\ ~empty(srp[e].outstanding_tx)) =>
      longest_span(srp[e].outstanding_tx) = srp[e].outstanding_tx.items

\* C23: a retransmission happens only with a non-empty window whose oldest
\* frame was last handed to the NIC at least timeout_cycles ago; in
\* particular a frame sent for the first time is not sent again before
\* timeout_cycles have passed.
C23_RetransmitTiming ==
  [][tmr'.retx # tmr.retx =>
       /\ ~empty(tmr.outstanding_tx)
       /\ tmr.now - Head(tmr.outstanding_tx.items).sent >= timeout_cycles]_vars

\* C24: SRP rx() on a valid DATA frame.  When the frame's seq equals rx_seq,
\* rx_seq advances by one and exactly one payload holding the frame's bytes
\* is enqueued to the inbound ring; otherwise rx_seq and the inbound ring
\* are unchanged; need_ack is set in both cases.
C24_RxData ==
  call.fn = "rx_data" =>
    /\ call.need_ack_after
    /\ IF call.seq = call.rx_seq
       THEN /\ call.rx_seq_after = call.rx_seq + 1
            /\ call.inbound_ring_after = <<call.payload>>
       ELSE /\ call.rx_seq_after = call.rx_seq
            /\ call.inbound_ring_after = <<>>

\* C25: SRP ACK generation.  An rx() call whose burst held at least one DATA
\* frame puts exactly one ACK frame on the NIC TX queue, after the burst,
\* with seq equal to rx_seq at the end of the burst and payload_len 0; an
\* rx() call whose burst held no DATA frame emits nothing; need_ack is
\* false when rx() returns.
NoUnset(st) == \A i \in 1 .. Len(RxFrames(st)) : ~Unset(RxFrames(st)[i])
C25_AckPerBurst ==
  [][\A e \in EP :
       (srp[e].pc = "rx" /\ srp'[e].pc = "tx" /\ NoUnset(srp[e])) =>
         /\ ~srp'[e].need_ack
         /\ IF AckDue(srp[e])
            THEN /\ Len(srp'[e].nic_tx) = Len(srp[e].nic_tx) + 1
                 /\ LET ack == srp'[e].mem[srp'[e].nic_tx[Len(srp'[e].nic_tx)]]
                    IN /\ ack.opcode = OPCODE_ACK
                       /\ ack.seq = srp'[e].rx_seq
                       /\ ack.payload_len = 0
            ELSE srp'[e].nic_tx = srp[e].nic_tx]_vars

\* C26: URP tx() on a burst of n dequeued payloads builds exactly n frames,
\* the k-th with sequence number tx_seq + k - 1 and with the size and the
\* bytes of the k-th dequeued payload, and hands them to the NIC in that
\* order (what the NIC has not accepted yet stays queued in tx_bufs).
TxBurstOf(e) == SubSeq(urp[e].outbound_ring, 1, Min(Len(urp[e].outbound_ring), UBurstSize))
C26_TxBurst ==
  [][\A e \in EP :
       Len(urp'[e].outbound_ring) < Len(urp[e].outbound_ring) =>
         LET n == Len(TxBurstOf(e))
             built == urp'[e].nic_tx \o urp'[e].tx_bufs
             old == Len(urp[e].nic_tx)
         IN /\ ~urp'[e].dead
            /\ Len(built) = old + n
            /\ urp'[e].tx_seq = (urp[e].tx_seq + n) % SeqMod
            /\ \A k \in 1 .. n :
                 /\ built[old + k].seq = (urp[e].tx_seq + k - 1) % SeqMod
                 /\ built[old + k].payload_len = urp[e].rec[TxBurstOf(e)[k]].size
                 /\ built[old + k].payload = urp[e].rec[TxBurstOf(e)[k]].data]_vars

\* C27: URP rx() drops invalid frames.  In every rx() call the number of
\* payloads handed to the inbound ring (enqueued, or still waiting in the
\* enqueue loop) equals the number of frames of the burst that are valid
\* URP frames (EtherType, version 1, payload_len <= MAX_PAYLOAD, long
\* enough for header and payload).
UrpValid(f) ==
  /\ f.ether_type = URP_ETH_TYPE
  /\ f.version = 1
  /\ f.payload_len <= MAX_PAYLOAD
  /\ f.pkt_len >= ETHER_HDR_LEN + URP_HDR_LEN + f.payload_len
RxBurstOf(e) == SubSeq(urp[e].nic_rx, 1, Min(Len(urp[e].nic_rx), UBurstSize))
C27_RxDropsInvalid ==
  [][\A e \in EP :
       Len(urp'[e].nic_rx) < Len(urp[e].nic_rx) =>
         Len(urp'[e].inbound_ring) - Len(urp[e].inbound_ring) + urp'[e].rx_left
           = Cardinality({k \in 1 .. Len(RxBurstOf(e)) : UrpValid(RxBurstOf(e)[k])})]_vars

\* C28: URP rx() under inbound backpressure.  Every pass of the enqueue
\* loop hands the ring the not-yet-enqueued tail of the batch: the entries
\* a pass appends are the batch positions num_enqueued, num_enqueued + 1,
\* ... in order, so each payload of the batch is enqueued exactly once.
C28_RxRetryTail ==
  [][\A e \in EP :
       urp'[e].rx_left # urp[e].rx_left \/ Len(urp'[e].nic_rx) < Len(urp[e].nic_rx) =>
         \A k \in 1 .. Len(urp'[e].inbound_ring) - Len(urp[e].inbound_ring) :
           urp'[e].inbound_ring[Len(urp[e].inbound_ring) + k]
             = urp[e].num_enqueued + k - 1]_vars

\* C29: peer learning needs a valid frame.  Whenever an endpoint's
\* have_learned_peer or learned_peer changes, the burst it received holds a
\* frame that passes validation and the MAC latched is the source MAC of
\* such a frame; bursts of invalid frames leave both unchanged.
C29_PeerFromValidFrame ==
  [][\A e \in EP :
       /\ (srp'[e].have_learned_peer # srp[e].have_learned_peer
            \/ srp'[e].learned_peer # srp[e].learned_peer) =>
             \E i \in 1 .. Len(RxFrames(srp[e])) :
               /\ ~Malformed(RxFrames(srp[e])[i])
               /\ srp'[e].learned_peer = RxFrames(srp[e])[i].src
       /\ (urp'[e].have_learned_peer # urp[e].have_learned_peer
            \/ urp'[e].learned_peer # urp[e].learned_peer) =>
             \E i \in 1 .. Len(RxBurstOf(e)) :
               /\ UrpValid(RxBurstOf(e)[i])
               /\ urp'[e].learned_peer = RxBurstOf(e)[i].src]_vars

\* C30: destination selection across threads.  Every frame the TX thread
\* builds goes to the configured default peer when TX observed
\* have_learned_peer false, and otherwise to the complete source MAC of a
\* received frame, never to a MAC the RX thread has only partly written.
C30_DstComplete ==
  \A k \in 1 .. Len(peer.built) :
    IF peer.built[k].flag
    THEN \E s \in PeerSrcs : peer.built[k].dst = Mac(s)
    ELSE peer.built[k].dst = Mac(BCAST)

\* C31: URP tx() leaves the payload records alone.  A tx() call that
\* dequeues records from the outbound ring changes none of the producer's
\* records: each has the size and bytes the producer gave it.
C31_TxKeepsRecords ==
  [][\A e \in EP :
       Len(urp'[e].outbound_ring) < Len(urp[e].outbound_ring) =>
         urp'[e].rec = urp[e].rec]_vars

\* C32: the URP parser rejects oversize, wrong-version and wrong-EtherType
\* frames.  In every rx() call the payloads handed to the inbound ring
\* (enqueued, or waiting in the enqueue loop) are at most as many as the
\* frames of the burst that are not rejected: a frame with payload_len >
\* MAX_PAYLOAD, version # 1 or another EtherType yields no payload.
UrpRejected(f) ==
  \/ f.payload_len > MAX_PAYLOAD
  \/ f.version # 1
  \/ f.ether_type # URP_ETH_TYPE
C32_ParseRejects ==
  [][\A e \in EP :
       Len(urp'[e].nic_rx) < Len(urp[e].nic_rx) =>
         Len(urp'[e].inbound_ring) - Len(urp[e].inbound_ring) + urp'[e].rx_left
           <= Cardinality({k \in 1 .. Len(RxBurstOf(e)) : ~UrpRejected(RxBurstOf(e)[k])})]_vars

\* C33: SRP sequence wrap-around.  For a window that starts at sequence
\* number base (around the wrap of the counter) the sender's tx_seq is
\* base + n modulo the counter width, the receiver accepts the frame with
\* seq = base and its rx_seq becomes base + 1 modulo the width, and the ACK
\* carrying that rx_seq releases exactly the window entries below it in
\* modular order: the entries left are those from the ACK's seq on.
C33_SeqWrap ==
  call.fn = "seq_wrap" =>
    /\ call.tx_seq_after = (call.base + call.n) % SeqMod
    /\ call.window = [i \in 1 .. call.n |-> (call.base + i - 1) % SeqMod]
    /\ call.rx_seq_after = (call.base + 1) % SeqMod
    /\ call.inbound_ring_after = <<Pay("A", 1)>>
    /\ call.ack_seq = call.rx_seq_after
    /\ ~call.dead
    /\ call.window_after = [i \in 1 .. call.n - 1 |-> (call.base + i) % SeqMod]

\* C34: Ring<T, Capacity> is a bounded FIFO queue.  After every push or pop
\* call 0 <= size() = tail_ - head_ <= Capacity and the live entries
\* buf_[(head_ + i) & mask_] are the items of the successful pushes not yet
\* popped, in push order; a push on a full ring and a pop on an empty ring
\* return false and leave head_, tail_ and buf_ as they were; every other
\* push returns true, and every other pop returns true with the oldest
\* item pushed and not yet popped.
C34_RingFifo ==
  [][/\ Ring_size(ring'.q) <= BURST_SIZE
     /\ Ring_size(ring'.q) = Len(ring'.fifo)
     /\ \A i \in 1 .. Len(ring'.fifo) :
          ring'.q.buf_[BitAnd((ring'.q.head_ + i - 1) % SizeMod, mask_)] = ring'.fifo[i]
     /\ (ring'.op = "push" /\ Ring_full(ring.q)) => (~ring'.ret /\ ring'.q = ring.q)
     /\ (ring'.op = "push" /\ ~Ring_full(ring.q)) => ring'.ret
     /\ (ring'.op = "pop" /\ Ring_empty(ring.q)) => (~ring'.ret /\ ring'.q = ring.q)
     /\ (ring'.op = "pop" /\ ~Ring_empty(ring.q)) =>
          (ring'.ret /\ ring'.item = Head(ring.fifo))]_vars
C34_Witness ==
  /\ ring.op = "push" /\ ~ring.ret
  /\ Ring_full(ring.q)
  /\ ring.q.tail_ < ring.q.head_

C36_ExclusiveOwnership ==
  \A e \in EP :
    /\ NoDup(srp[e].pool)
    /\ \A i \in 1 .. Len(srp[e].nic_tx) :
         \A j \in 1 .. Len(srp[e].pool) : srp[e].nic_tx[i] # srp[e].pool[j]

(* The frames the next pass of the engine loop handles: the RX burst it    *)
(* takes from the NIC, or the rest of the burst it is spinning in.         *)
SigBurstNow ==
  IF sig.pc = "spin" THEN sig.rx_rest
  ELSE SubSeq(sig.nic_rx, 1, Min(Len(sig.nic_rx), SigBurst))

SigAckOfPending(f) ==
  LET rcv == sig_parse_frame(f)
  IN /\ rcv.ok
     /\ rcv.opcode = "ack"
     /\ rcv.channel_id = sig.pending_channel_id
     /\ rcv.seq = sig.pending_seq

SigNewTx ==
  IF Len(sig'.nic_tx) > Len(sig.nic_tx)
  THEN SubSeq(sig'.nic_tx, Len(sig.nic_tx) + 1, Len(sig'.nic_tx))
  ELSE <<>>

\* C37: stop-and-wait discipline of SigEndpoint.  While a DATA frame
\* (channel c, seq s) is pending, a step that does not receive an ACK carrying
\* exactly (c, s) keeps has_pending with the same channel and seq, dequeues
\* nothing from the outbound ring, and hands the NIC no DATA frame other than
\* one carrying (c, s).
C37_StopAndWait ==
  [][(/\ sig.has_pending
      /\ \A k \in 1 .. Len(SigBurstNow) : ~SigAckOfPending(SigBurstNow[k])) =>
       /\ sig'.has_pending
       /\ sig'.pending_channel_id = sig.pending_channel_id
       /\ sig'.pending_seq = sig.pending_seq
       /\ Len(sig'.outbound_ring) >= Len(sig.outbound_ring)
       /\ \A k \in 1 .. Len(SigNewTx) :
            SigNewTx[k].opcode = "data" =>
              /\ SigNewTx[k].channel_id = sig.pending_channel_id
              /\ SigNewTx[k].seq = sig.pending_seq]_vars

(* A frame is pending after a valid frame has been handled, a further      *)
(* record waits in the outbound ring, and the NIC holds a frame of the     *)
(* pending record.                                                         *)
C37_Witness ==
  /\ sig.has_pending
  /\ sig.have_learned_peer
  /\ sig.outbound_ring # <<>>
  /\ sig.frames < SigArrivals
  /\ sig.nic_rx = <<>>
  /\ sig.nic_tx = <<SigFrame(sig.mac, "data", sig.pending_channel_id,
                             sig.pending_seq, sig.send_copy.id)>>

(* Records of the inbound ring plus the one rx() is enqueueing. *)
SigDelivered(st) == Len(st.inbound_ring) + (IF st.pc = "spin" THEN 1 ELSE 0)

RECURSIVE SigGrowth(_, _, _)
SigGrowth(old, new, cs) ==
  IF cs = {} THEN 0
  ELSE LET c == CHOOSE x \in cs : TRUE
       IN ((new[c] - old[c]) % SeqMod) + SigGrowth(old, new, cs \ {c})

\* C38: per-channel in-order delivery of SigEndpoint.  In every step that
\* advances an expect_seq counter or adds to the inbound ring, the number of
\* records delivered to the inbound ring equals the total by which the
\* expect_seq counters grew: a DATA frame is delivered if and only if it
\* advances expect_seq of its channel by one.
C38_InOrderDelivery ==
  [][(\/ sig'.expect_seq # sig.expect_seq
      \/ SigDelivered(sig') > SigDelivered(sig)) =>
       SigDelivered(sig') - SigDelivered(sig) =
         SigGrowth(sig.expect_seq, sig'.expect_seq, SigChans)]_vars

\* C40: no loss or sequence gap on NIC rejection (SigEndpoint::tx).  Whenever
\* tx() takes a sequence number of channel c from next_seq[c], the DATA frame
\* carrying that number is accepted by the NIC in the same step and the record
\* it was dequeued for is kept as the pending record; so no record is
\* discarded and the accepted sequence numbers of a channel have no gap.
C40_NoGapOnReject ==
  [][\A c \in SigChans :
       sig'.next_seq[c] # sig.next_seq[c] =>
         /\ sig'.has_pending
         /\ sig'.send_copy = Head(sig.outbound_ring)
         /\ \E k \in 1 .. Len(SigNewTx) :
              SigNewTx[k] = SigFrame(sig.mac, "data", c, sig.next_seq[c],
                                     Head(sig.outbound_ring).id)]_vars

(* Records delivered to the inbound ring of R so far (each in-order DATA   *)
(* frame advances one expect_seq counter by one). *)
PairDelivered == SigGrowth([c \in SigChans |-> 0], pair.end["R"].expect_seq,
                           SigChans)

\* C39: stop-and-wait progress.  On a link that loses at most LinkLoss frames
\* and under fair scheduling of the engines, the applications and the NICs,
\* a pending DATA frame of S is eventually acknowledged (has_pending returns
\* to false), and eventually all LinkRecords records that S's application
\* enqueues have been delivered to the inbound ring of R.
C39_Progress ==
  /\ (pair.end["S"].has_pending ~> ~pair.end["S"].has_pending)
  /\ <>(PairDelivered = LinkRecords)
====
